---- MODULE Spec2Model ----
(***************************************************************************)
(* Model of the SDO parameter-access layer and the batch configurator of   *)
(* odrive_can_tools (src/src/configure.py, src/src/can_utils.py), of the   *)
(* calibration poll (src/calibrate.py), of node discovery and of the       *)
(* address and value codecs, of the threads of the consoles, of the node   *)
(* configurator (src/setup_odrives.py), of the rename script              *)
(* (src/convert_id.py), of the calibration of all motors (src/calibrate.py)*)
(* of the setup script (src/setup.py), of the front ends (src/console.py,  *)
(* src/gamecontroller.py, src/velocity.py) and of the joystick thread.     *)
(* Each part has its own specification over the same variables: Spec,      *)
(* SpecCal, SpecDisc, SpecAddr, SpecCodec, SpecAccess, SpecThreads,        *)
(* SpecNode, SpecRename, SpecAll, SpecMain, SpecFront (SpecFrontFair with  *)
(* fair scheduling of the threads) and SpecJoy.                            *)
(*                                                                         *)
(* Numbers are fixed-point, in thousandths (1.005 is 1005); a Python value *)
(* is a record [f, m]: f says the object is a float, m is its magnitude.   *)
(* The modelled magnitudes stay away from the exact tolerance boundary,    *)
(* where binary floating point and fixed point could disagree.             *)
(***************************************************************************)
EXTENDS Integers, Sequences, FiniteSets, TLC

\* ---- bounds of the model ----
MaxSettings == 2      \* longest settings list handed to setup_odrive
MaxNoise    == 1      \* foreign frames that show up in the receive buffer

\* ---- protocol constants (configure.py 8-11) ----
READ  == 0
RXSDO == 4
TXSDO == 5
WRITE == 1

SET_AXIS_STATE == 7   \* command id 0x07 of the axis state request
IDLE == 1             \* ODRIVE_STATES: 1 is "IDLE"
FULL_CALIBRATION == 3 \* the requested state of calibrate_motor

Tolerance == 10       \* tolerance=1e-2, in thousandths
HeaderLen == 4        \* struct size of '<BHB'
ShortLen  == 4        \* length of a response cut short by a faulty sender
BigM      == 2000000  \* stands for any magnitude far outside the modelled range

NodeA == 1            \* the node the library calls address
NodeB == NodeA + 1    \* another node on the same bus

\* ---- the type table ----
format_lookup ==
  [bool   |-> "?", uint8  |-> "B", int8  |-> "b",
   uint16 |-> "H", int16  |-> "h", uint32 |-> "I", int32 |-> "i",
   uint64 |-> "Q", int64  |-> "q", float |-> "f"]

\* struct.calcsize of one format character under '<'
Width(fmt) ==
  CASE fmt \in {"?", "B", "b"} -> 1
    [] fmt \in {"H", "h"}      -> 2
    [] fmt \in {"I", "i", "f"} -> 4
    [] OTHER                   -> 8

\* ---- the endpoint registry (sample of data/flat_endpoints.json) ----
PathFloat   == "axis0.config.motor.torque_constant"
PathInt     == "axis0.config.motor.pole_pairs"
PathActive  == "axis0.active_errors"
PathDisarm  == "axis0.disarm_reason"
PathSave    == "save_configuration"
PathState   == "axis0.current_state"
PathUnknown == "axis0.config.no_such_field"
PathNodeId  == "axis0.config.can.node_id"

endpoints ==
  (PathFloat  :> [id |-> 10, type |-> "float"])  @@
  (PathInt    :> [id |-> 20, type |-> "int32"])  @@
  (PathActive :> [id |-> 30, type |-> "uint32"]) @@
  (PathDisarm :> [id |-> 31, type |-> "uint32"]) @@
  (PathSave   :> [id |-> 40, type |-> "function"]) @@
  (PathState  :> [id |-> 50, type |-> "uint8"]) @@
  (PathNodeId :> [id |-> 60, type |-> "uint32"])

error_endpoints == <<PathActive, PathDisarm>>

\* ---- Python values ----
PyInt(n)   == [f |-> FALSE, m |-> 1000 * n]
PyFloat(m) == [f |-> TRUE,  m |-> m]
NoValue    == [f |-> FALSE, m |-> 0]

Abs(x) == IF x < 0 THEN -x ELSE x

\* ---- frames ----
\* cls is the encoding of the value bytes: "f" float32, "i" integer, "-" none
NoFrame == [addr |-> -1, op |-> 0, ep |-> 0, cls |-> "-", m |-> 0, len |-> 0]

\* a | b on non-negative integers
RECURSIVE BitOr(_, _)
BitOr(a, b) ==
  IF a = 0 THEN b
  ELSE IF b = 0 THEN a
  ELSE (IF a % 2 = 1 \/ b % 2 = 1 THEN 1 ELSE 0) + 2 * BitOr(a \div 2, b \div 2)

\* variant: the node id is shifted by four bits
Address_shift4(node_id, command_id) == BitOr(node_id * 16, command_id)

\* arbitration_id=(node_id << 5 | command_id)
Address(node_id, command_id) == BitOr(node_id * 32, command_id)

\* variant: the command bits are taken for the node id
extract_node_id_low(arbitration_id) == arbitration_id % 32

\* extract_node_id
extract_node_id(arbitration_id) == arbitration_id \div 32

\* struct.pack of one value: ok = FALSE is struct.error
PackValue(fmt, value) ==
  CASE fmt = "f" -> [ok |-> TRUE, cls |-> "f", m |-> value.m]
    [] fmt = "?" -> [ok |-> TRUE, cls |-> "i",
                     m |-> IF value.m # 0 THEN 1000 ELSE 0]
    [] OTHER ->
         LET n == value.m \div 1000
             lo == CASE fmt = "b" -> -128
                     [] fmt = "h" -> -32768
                     [] fmt \in {"B", "H", "I", "Q"} -> 0
                     [] OTHER -> -(BigM)
             hi == CASE fmt = "b" -> 127
                     [] fmt = "B" -> 255
                     [] fmt = "h" -> 32767
                     [] fmt = "H" -> 65535
                     [] OTHER -> BigM
         IN [ok |-> ~value.f /\ n >= lo /\ n <= hi, cls |-> "i", m |-> value.m]

\* struct.unpack_from of the value bytes of a frame as format fmt
UnpackValue(fmt, frame) ==
  CASE fmt = "f" ->
         IF frame.cls = "f" THEN PyFloat(frame.m)
         ELSE PyFloat(0)                      \* small integer bits: a denormal
    [] fmt = "?" -> PyInt(IF frame.m # 0 THEN 1 ELSE 0)
    [] OTHER ->
         IF frame.cls = "f" /\ frame.m # 0
         THEN [f |-> FALSE, m |-> BigM]       \* float bits read as an integer
         ELSE [f |-> FALSE, m |-> frame.m]

\* ---- inputs ----
Targets  == {PyInt(1), PyFloat(1000)}
Paths    == {PathFloat, PathInt, PathUnknown}
\* the value of a setting whose path is unknown is never looked at
Settings ==
  [path : Paths \ {PathUnknown}, value : Targets]
    \cup {[path |-> PathUnknown, value |-> PyInt(1)]}

SettingsLists ==
  { s \in UNION { [1..n -> Settings] : n \in 0..MaxSettings } :
      \A a, b \in DOMAIN s : a # b => s[a].path # s[b].path }

\* values the device can hold for an endpoint id
DevVals ==
  (10 :> {1000, 1005, 1020}) @@ (20 :> {1000, 2000}) @@
  (30 :> {0, 1000}) @@ (31 :> {0, 1000}) @@
  (50 :> {1000, 3000, 4000, 7000})

DevClass(id) == IF id = 10 THEN "f" ELSE "i"

\* a full SDO response: the header and a four-byte value field
FrameLen == HeaderLen + Width("f")

VARIABLES
  pc,        \* position of the calling thread
  op,        \* library call in progress: "none", "setup", "clear"
  settings,  \* the settings list of setup_odrive
  clear,     \* the clear flag of clear_errors
  i,         \* loop index of setup_odrive / clear_errors
  rd,        \* arguments of the read_config call in progress
  response,  \* what receive_can_message returned
  rdOut,     \* outcome of read_config: value, none or raise
  current,   \* current_value of set_odrive_parameter
  valid,     \* outcome of validate_config
  result,    \* outcome of the library call
  sent,      \* frames the transport accepted during the call, in order
  rx,        \* receive buffer of the bus
  flight,    \* responses of node A not yet in the receive buffer
  dev,       \* values held by node A, by endpoint id
  noise,     \* foreign frames injected so far
  now,       \* the clock time.time() reads, in ticks
  loc,       \* locals of calibrate_motor / discover_node_ids
  printed,   \* the last line printed
  h          \* history of the call, for stating properties

vars == <<pc, op, settings, clear, i, rd, response, rdOut, current,
          valid, result, sent, rx, flight, dev, noise, now, loc, printed, h>>

NoRead == [ep |-> 0, type |-> "", ctx |-> "none"]
NoOut  == [k |-> "unset", v |-> NoValue]

H0 == [failLen  |-> -1,     \* Len(sent) when a setting failed, -1 if none did
       nOk      |-> 0,      \* settings for which set_odrive_parameter said True
       matched0 |-> FALSE,  \* the node matched every setting when the call began
       clean    |-> TRUE,   \* every read so far returned the node's value
       seen     |-> FALSE,  \* a frame addressed to the read-response id was taken
       skipped  |-> {},     \* addresses of the frames discarded in this window
       applied  |-> {},     \* endpoints written and validated, with the value
       polls    |-> 0,      \* reads of the axis state begun by calibrate_motor
       sleeps   |-> 0,      \* poll intervals calibrate_motor slept through
       idleAt   |-> 0,      \* the poll that first returned IDLE, 0 if none did
       last     |-> -1,     \* state code the latest poll returned, -1 if none
       busy     |-> TRUE,   \* every poll so far returned a calibrating state
       got      |-> {},     \* addresses of the frames taken in the window
       emitted  |-> {},     \* nodes that sent a frame since the window began
       args     |-> <<>>,   \* the arguments the call was made with
       reached  |-> FALSE,  \* the write request reached the node
       none     |-> FALSE,  \* the latest read_config returned None
       stolen   |-> FALSE,  \* a thread took the response to another's request
       back     |-> -1,     \* magnitude the validation read gave, -1 if none
       queued   |-> FALSE,  \* node A holds an axis state request not yet acted on
       moved    |-> FALSE,  \* some poll returned a calibrating state
       missed   |-> FALSE,  \* some poll returned None
       nonzero  |-> {},     \* error endpoints whose read returned a non-zero value
       late     |-> FALSE,  \* a worker thread used the bus after bus.shutdown()
       afterIdle |-> FALSE] \* a worker sent a position command after an IDLE command

NoLoc  == [start_time |-> 0, end_time |-> 0, node_ids |-> {}, ret |-> <<>>]
NoLine == [tag |-> "", code |-> -1]

\* The bus was just opened and the script makes one library call on it.  It
\* either configures (a settings list and any values of the configured
\* endpoints) or inspects errors (any values of the error endpoints); the
\* endpoints it does not use start at zero errors and at the first
\* configurable value.
DevInits ==
  { d \in [DOMAIN DevVals -> {0, 1000, 1005, 1020, 2000}] :
      /\ \A e \in DOMAIN DevVals : d[e] \in DevVals[e]
      /\ \/ d[30] = 0 /\ d[31] = 0
         \/ d[10] = 1000 /\ d[20] = 1000
      /\ d[50] = 1000 }

Init ==
  /\ pc = "idle" /\ op = "none"
  /\ dev \in DevInits
  /\ settings \in SettingsLists
  /\ (dev[30] # 0 \/ dev[31] # 0) => settings = <<>>
  /\ clear = FALSE
  /\ i = 0
  /\ rd = NoRead
  /\ response = NoFrame
  /\ rdOut = NoOut
  /\ current = NoValue
  /\ valid = "unset"
  /\ result = "unset"
  /\ sent = <<>> /\ rx = <<>> /\ flight = <<>>
  /\ noise = 0
  /\ now = 0 /\ loc = NoLoc /\ printed = NoLine
  /\ h = H0

\* ---- the transport and the device behind it ----

\* what node A does with a frame that reached it; it enters a requested
\* axis state at once, or later, when its axis loop takes the request up
DeviceReceives(frame) ==
  IF frame.addr = Address(NodeA, SET_AXIS_STATE)
  THEN /\ \/ dev' = [dev EXCEPT ![50] = frame.m]
          \/ dev' = dev
       /\ flight' = flight
  ELSE
  IF frame.addr # Address(NodeA, RXSDO) \/ frame.ep \notin DOMAIN DevVals
  THEN UNCHANGED <<dev, flight>>
  ELSE IF frame.op = READ
  THEN /\ flight' = Append(flight,
                        [addr |-> Address(NodeA, TXSDO), op |-> READ,
                         ep |-> frame.ep, cls |-> DevClass(frame.ep),
                         m |-> dev[frame.ep], len |-> FrameLen])
       /\ dev' = dev
  ELSE /\ \E nv \in DevVals[frame.ep] \cup {frame.m} :
            dev' = [dev EXCEPT ![frame.ep] = nv]
       /\ flight' = flight

\* send_can_message: bus.send takes the frame, or raises can.CanError
send_can_message(frame) ==
  \/ /\ sent' = Append(sent, frame)
     /\ DeviceReceives(frame)
  \/ UNCHANGED <<sent, dev, flight>>

NoSend == UNCHANGED <<sent, dev, flight>>

\* a response of node A reaches the receive buffer, whole or cut short; the
\* caller can tell when it came only by looking, so arrivals are taken while
\* it is receiving
Deliver ==
  /\ pc = "rd_recv"
  /\ flight # <<>>
  /\ \E len \in {FrameLen, ShortLen} :
        rx' = Append(rx, [Head(flight) EXCEPT !.len = len])
  /\ flight' = Tail(flight)
  /\ UNCHANGED <<pc, op, settings, now, loc, printed, clear, i, rd, response, rdOut,
                 current, valid, result, sent, dev, noise, h>>

\* frames of other senders: an SDO response of node B, a frame of node A
\* under another command id
NoiseFrames ==
  { [addr |-> Address(NodeB, TXSDO), op |-> READ, ep |-> 10, cls |-> "f",
     m |-> 1020, len |-> FrameLen],
    [addr |-> Address(NodeA, READ), op |-> READ, ep |-> 0, cls |-> "i",
     m |-> 1000, len |-> FrameLen] }

Noise ==
  /\ pc = "rd_recv"
  /\ noise < MaxNoise
  /\ \E fr \in NoiseFrames : rx' = Append(rx, fr)
  /\ noise' = noise + 1
  /\ UNCHANGED <<pc, op, settings, now, loc, printed, clear, i, rd, response, rdOut,
                 current, valid, result, sent, flight, dev, h>>

\* ---- read_config ----

\* '<BHB', READ, endpoint_id, 0
ReadRequest(node_id, endpoint_id) ==
  [addr |-> Address(node_id, RXSDO), op |-> READ, ep |-> endpoint_id,
   cls |-> "-", m |-> 0, len |-> HeaderLen]

\* variants of the test: any frame; the command id alone
Matches_any(msg, expected_arbitration_id) == TRUE

Matches_cmd(msg, expected_arbitration_id) ==
  msg.addr % 32 = expected_arbitration_id % 32

\* msg.arbitration_id == expected_arbitration_id
Matches(msg, expected_arbitration_id) == msg.addr = expected_arbitration_id

\* the rest of read_config once receive_can_message returned
ReadResult(endpoint_type, resp) ==
  IF resp = NoFrame THEN [k |-> "none", v |-> NoValue]
  ELSE IF endpoint_type \notin DOMAIN format_lookup
  THEN [k |-> "raise", v |-> NoValue]                         \* KeyError
  ELSE IF resp.len < HeaderLen + Width(format_lookup[endpoint_type])
  THEN [k |-> "raise", v |-> NoValue]                         \* struct.error
  ELSE [k |-> "value", v |-> UnpackValue(format_lookup[endpoint_type], resp)]

BeginRead(endpoint_id, endpoint_type, ctx) ==
  /\ rd' = [ep |-> endpoint_id, type |-> endpoint_type, ctx |-> ctx]
  /\ pc' = "rd_send"

ReadSend ==
  /\ pc = "rd_send"
  /\ send_can_message(ReadRequest(NodeA, rd.ep))
  /\ pc' = "rd_recv"
  /\ response' = NoFrame
  /\ h' = [h EXCEPT !.seen = FALSE, !.skipped = {}]
  /\ UNCHANGED <<op, settings, now, loc, printed, clear, i, rd, rdOut, current, valid,
                 result, rx, noise>>

\* one pass of the receive loop that got a frame from bus.recv
RecvStep ==
  /\ pc = "rd_recv"
  /\ rx # <<>>
  /\ LET msg == Head(rx)
         own == msg.addr = NodeA * 32 + 5
     IN /\ rx' = Tail(rx)
        /\ IF Matches(msg, Address(NodeA, TXSDO))
           THEN /\ response' = msg
                /\ pc' = "rd_ret"
                /\ h' = [h EXCEPT !.seen = @ \/ own]
           ELSE /\ response' = response
                /\ pc' = pc
                /\ h' = [h EXCEPT !.seen = @ \/ own, !.skipped = @ \cup {msg.addr}]
  /\ UNCHANGED <<op, settings, now, loc, printed, clear, i, rd, rdOut, current, valid,
                 result, sent, flight, dev, noise>>

\* the 0.05 s window is over
RecvTimeout ==
  /\ pc = "rd_recv"
  /\ response' = NoFrame
  /\ pc' = "rd_ret"
  /\ UNCHANGED <<op, settings, now, loc, printed, clear, i, rd, rdOut, current, valid,
                 result, sent, rx, flight, dev, noise, h>>

\* bus.recv raised can.CanError
RecvError ==
  /\ pc = "rd_recv"
  /\ response' = NoFrame
  /\ pc' = "rd_ret"
  /\ UNCHANGED <<op, settings, now, loc, printed, clear, i, rd, rdOut, current, valid,
                 result, sent, rx, flight, dev, noise, h>>

ReadReturn ==
  /\ pc = "rd_ret"
  /\ LET out == ReadResult(rd.type, response)
     IN /\ rdOut' = out
        /\ h' = [h EXCEPT !.clean =
                   @ /\ out.k = "value" /\ rd.ep \in DOMAIN dev
                     /\ out.v.m = dev[rd.ep],
                          !.none = out.k = "none"]
  /\ pc' = "rd_done"
  /\ UNCHANGED <<op, settings, now, loc, printed, clear, i, rd, response, current,
                 valid, result, sent, rx, flight, dev, noise>>

\* ---- write_config, save_config, validate_config ----

\* variant: the frame carries the value just read instead of the new one
write_config_prev(node_id, endpoint_id, endpoint_type, value) ==
  [ok |-> TRUE,
   frame |-> [addr |-> Address(node_id, RXSDO), op |-> WRITE,
              ep |-> endpoint_id, cls |-> "i", m |-> rdOut.v.m,
              len |-> FrameLen]]

\* write_config: the frame it builds; ok = FALSE when building it raises
write_config(node_id, endpoint_id, endpoint_type, value) ==
  IF endpoint_type \notin DOMAIN format_lookup
  THEN [ok |-> FALSE, frame |-> NoFrame]                      \* KeyError
  ELSE LET fmt == format_lookup[endpoint_type]
           p   == PackValue(fmt, value)
       IN [ok |-> p.ok,
           frame |-> [addr |-> Address(node_id, RXSDO), op |-> WRITE,
                      ep |-> endpoint_id, cls |-> p.cls, m |-> p.m,
                      len |-> HeaderLen + Width(fmt)]]

\* save_config: '<BHB', WRITE, save_endpoint_id, 0
save_config(node_id, save_endpoint_id) ==
  [addr |-> Address(node_id, RXSDO), op |-> WRITE, ep |-> save_endpoint_id,
   cls |-> "-", m |-> 0, len |-> HeaderLen]

\* the comparison of validate_config
CompareExpected(actual_value, expected_value, tolerance) ==
  IF expected_value.f
  THEN Abs(actual_value.m - expected_value.m) <= tolerance
  ELSE actual_value.m = expected_value.m

\* validate_config, given the outcome of its read
validate_config(out, expected_value, tolerance) ==
  CASE out.k = "raise" -> "raise"
    [] out.k = "none"  -> "False"
    [] OTHER -> IF CompareExpected(out.v, expected_value, tolerance)
                THEN "True" ELSE "False"

\* ---- set_odrive_parameter and setup_odrive ----

\* variant: the test looks at the type of the target, as validate_config does
AlreadySet_byTarget(current_value, value, tolerance) ==
  IF value.f
  THEN Abs(current_value.m - value.m) <= tolerance
  ELSE current_value.m = value.m

\* the already-set test of set_odrive_parameter
AlreadySet(current_value, value, tolerance) ==
  IF current_value.f
  THEN Abs(current_value.m - value.m) <= tolerance
  ELSE current_value.m = value.m

\* variant: the loop goes on after a failed setting
AfterSetting_goOn(ok) == "next"

\* setup_odrive, on the result of set_odrive_parameter
AfterSetting(ok) == IF ok THEN "next" ELSE "return"

\* the rule of the design: floats within tolerance, other types exactly
MatchesByType(endpoint_type, m, value) ==
  IF endpoint_type = "float" THEN Abs(m - value.m) <= Tolerance
  ELSE m = value.m

NodeMatches ==
  \A k \in DOMAIN settings :
    /\ settings[k].path \in DOMAIN endpoints
    /\ LET e == endpoints[settings[k].path]
       IN MatchesByType(e.type, dev[e.id], settings[k].value)

\* the call returns: its locals are gone
Finish(res) ==
  /\ pc' = "done"
  /\ result' = res
  /\ i' = 0 /\ rd' = NoRead /\ response' = NoFrame /\ rdOut' = NoOut
  /\ current' = NoValue /\ valid' = "unset"

\* set_odrive_parameter returned ok to the loop of setup_odrive
SettingOutcome(ok, hist) ==
  /\ h' = [hist EXCEPT !.failLen = IF ~ok /\ @ = -1 THEN Len(sent) ELSE @,
                       !.nOk = IF ok THEN @ + 1 ELSE @]
  /\ IF AfterSetting(ok) = "next"
     THEN /\ pc' = "loop" /\ i' = i + 1
          /\ rd' = NoRead /\ response' = NoFrame /\ rdOut' = NoOut
          /\ current' = NoValue /\ valid' = "unset"
          /\ UNCHANGED result
     ELSE Finish("False")

\* variant: the exception is caught inside the loop, which goes on
SetupRaise_goOn ==
  /\ h' = [h EXCEPT !.failLen = IF @ = -1 THEN Len(sent) ELSE @]
  /\ pc' = "loop" /\ i' = i + 1
  /\ rd' = NoRead /\ response' = NoFrame /\ rdOut' = NoOut
  /\ current' = NoValue /\ valid' = "unset"
  /\ UNCHANGED result

\* an exception reached the except clause of setup_odrive
SetupRaise ==
  /\ h' = [h EXCEPT !.failLen = IF @ = -1 THEN Len(sent) ELSE @]
  /\ Finish("False")

StartSetup ==
  /\ pc = "idle"
  /\ op' = "setup" /\ pc' = "loop" /\ i' = 1
  /\ result' = "unset" /\ sent' = <<>>
  /\ h' = [H0 EXCEPT !.matched0 = NodeMatches]
  /\ UNCHANGED <<settings, now, loc, printed, clear, rd, response, rdOut, current,
                 valid, rx, flight, dev, noise>>

\* the loop takes the next setting; set_odrive_parameter looks its path up
SetupLookup ==
  /\ pc = "loop" /\ op = "setup"
  /\ i <= Len(settings)
  /\ LET path == settings[i].path
     IN IF path \notin DOMAIN endpoints
        THEN SetupRaise                                        \* KeyError
        ELSE /\ BeginRead(endpoints[path].id, endpoints[path].type, "current")
             /\ UNCHANGED <<i, response, rdOut, current, valid, result,
                            h>>
  /\ UNCHANGED <<op, settings, now, loc, printed, clear, sent, rx, flight, dev, noise>>

\* every setting returned True: save the configuration
SetupSave ==
  /\ pc = "loop" /\ op = "setup"
  /\ i > Len(settings)
  /\ IF PathSave \in DOMAIN endpoints
     THEN /\ send_can_message(save_config(NodeA, endpoints[PathSave].id))
          /\ Finish("True") /\ h' = h
     ELSE /\ NoSend /\ SetupRaise                              \* KeyError
  /\ UNCHANGED <<op, settings, now, loc, printed, clear, rx, noise>>

\* set_odrive_parameter after the read of the current value
AfterCurrent ==
  /\ pc = "rd_done" /\ rd.ctx = "current"
  /\ LET value == settings[i].value
         w     == write_config(NodeA, rd.ep, rd.type, value)
     IN CASE rdOut.k = "raise" -> SetupRaise /\ NoSend
          [] rdOut.k = "none"  -> SettingOutcome(FALSE, h) /\ NoSend
          [] rdOut.k = "value" /\ AlreadySet(rdOut.v, value, Tolerance) ->
               SettingOutcome(TRUE, h) /\ NoSend
          [] rdOut.k = "value" /\ ~AlreadySet(rdOut.v, value, Tolerance)
               /\ ~w.ok -> SetupRaise /\ NoSend                \* struct.error
          [] OTHER ->
               /\ send_can_message(w.frame)
               /\ BeginRead(rd.ep, rd.type, "validate")
               /\ current' = rdOut.v
               /\ response' = NoFrame /\ rdOut' = NoOut
               /\ UNCHANGED <<i, valid, result, h>>
  /\ UNCHANGED <<op, settings, now, loc, printed, clear, rx, noise>>

\* validate_config returns to set_odrive_parameter
ValidateReturn ==
  /\ pc = "rd_done" /\ rd.ctx = "validate"
  /\ valid' = validate_config(rdOut, settings[i].value, Tolerance)
  /\ pc' = "val_ret"
  /\ UNCHANGED <<op, settings, now, loc, printed, clear, i, rd, response, rdOut,
                 current, result, sent, rx, flight, dev, noise, h>>

\* "Update failed: Expected {value}, Got {current_value}"
UpdateFailedLine(value, current_value) ==
  [tag |-> "update_failed", code |-> current_value.m, expected |-> value.m]

\* set_odrive_parameter after validate_config; of the lines printed for a
\* failed update, the one of set_odrive_parameter is kept
AfterValidate ==
  /\ pc = "val_ret"
  /\ CASE valid = "raise" -> SetupRaise /\ printed' = printed
       [] valid = "True" ->
            /\ SettingOutcome(TRUE,
                 [h EXCEPT !.applied = @ \cup {[ep |-> rd.ep, m |-> dev[rd.ep]]}])
            /\ printed' = printed
       [] OTHER ->
            /\ SettingOutcome(FALSE,
                 [h EXCEPT !.back = IF rdOut.k = "value" THEN rdOut.v.m ELSE -1])
            /\ printed' = UpdateFailedLine(settings[i].value, current)
  /\ UNCHANGED <<op, settings, now, loc, clear, sent, rx, flight, dev, noise>>

\* ---- clear_errors ----

StartClear ==
  /\ pc = "idle"
  /\ clear' \in BOOLEAN
  /\ op' = "clear" /\ pc' = "cloop" /\ i' = 1
  /\ result' = "unset" /\ sent' = <<>>
  /\ h' = H0
  /\ UNCHANGED <<settings, now, loc, printed, rd, response, rdOut, current, valid,
                 rx, flight, dev, noise>>

ClearLookup ==
  /\ pc = "cloop"
  /\ i <= Len(error_endpoints)
  /\ LET path == error_endpoints[i]
     IN IF path \in DOMAIN endpoints
        THEN /\ BeginRead(endpoints[path].id, endpoints[path].type, "error")
             /\ i' = i
        ELSE /\ i' = i + 1
             /\ UNCHANGED <<pc, rd>>
  /\ UNCHANGED <<op, settings, now, loc, printed, clear, response, rdOut, current,
                 valid, result, sent, rx, flight, dev, noise, h>>

ClearReturn ==
  /\ pc = "cloop"
  /\ i > Len(error_endpoints)
  /\ Finish("None")
  /\ UNCHANGED <<op, settings, now, loc, printed, clear, sent, rx, flight, dev, noise, h>>

\* the message clear_errors prints for an endpoint: "if error_value:" takes
\* None and 0 alike for no error
ErrorLine(out, clears) ==
  IF out.k = "value" /\ out.v.m # 0
  THEN [tag |-> IF clears THEN "cleared" ELSE "error", code |-> out.v.m \div 1000]
  ELSE [tag |-> "no_error", code |-> -1]

\* variant: every error endpoint is cleared
ShouldClear_any(clears, error_endpoint) == clears

\* clear and "active_errors" in error_endpoint
ShouldClear(clears, error_endpoint) == clears /\ error_endpoint = PathActive

\* clear_errors after its read: report, and clear the active errors
AfterError ==
  /\ pc = "rd_done" /\ rd.ctx = "error"
  /\ IF rdOut.k = "raise"
     THEN /\ Finish("raise") /\ NoSend
          /\ printed' = printed
          /\ h' = h
     ELSE /\ IF rdOut.k = "value" /\ rdOut.v.m # 0
                /\ ShouldClear(clear, error_endpoints[i])
             THEN send_can_message(
                    write_config(NodeA, rd.ep, rd.type, PyInt(0)).frame)
             ELSE NoSend
          /\ printed' = ErrorLine(rdOut, ShouldClear(clear, error_endpoints[i]))
          /\ h' = [h EXCEPT !.nonzero =
                     IF rdOut.k = "value" /\ rdOut.v.m # 0
                     THEN @ \cup {rd.ep} ELSE @]
          /\ i' = i + 1 /\ pc' = "cloop"
          /\ rd' = NoRead /\ response' = NoFrame /\ rdOut' = NoOut
          /\ UNCHANGED <<current, valid, result>>
  /\ UNCHANGED <<op, settings, now, loc, clear, rx, noise>>

Next ==
  \/ StartSetup \/ SetupLookup \/ SetupSave \/ AfterCurrent
  \/ ValidateReturn \/ AfterValidate
  \/ StartClear \/ ClearLookup \/ ClearReturn \/ AfterError
  \/ ReadSend \/ RecvStep \/ RecvTimeout \/ RecvError \/ ReadReturn
  \/ Deliver \/ Noise

Spec == Init /\ [][Next]_vars

TypeOK ==
  /\ pc \in {"idle", "loop", "cloop", "rd_send", "rd_recv", "rd_ret",
             "rd_done", "val_ret", "done"}
  /\ op \in {"none", "setup", "clear"}
  /\ result \in {"unset", "True", "False", "None", "raise"}
  /\ valid \in {"unset", "True", "False", "raise"}
  /\ Len(settings) <= MaxSettings

\* ---- calibrate_motor (calibrate.py) ----
\* In this part one tick of the clock is a second.  A read lasts at most the
\* 0.05 s receive window, so the reads of a whole call add up to less than
\* one tick and only the sleeps move the clock.

CalTimeout   == 15    \* timeout = 15
PollInterval == 1     \* time.sleep(1)
MaxOversleep == 1     \* ticks the sleeps of a call may last beyond their intervals

\* send_can_message(bus, node_id, 0x07, '<I', requested)
AxisStateRequest(node_id, requested) ==
  [addr |-> Address(node_id, SET_AXIS_STATE), op |-> 0, ep |-> 0,
   cls |-> "i", m |-> 1000 * requested, len |-> Width("I")]

DevIdle ==
  (10 :> 1000) @@ (20 :> 1000) @@ (30 :> 0) @@ (31 :> 0) @@ (50 :> 1000 * IDLE)

\* set_idle_mode has run: the axis is idle when calibrate_motor is called
InitCal ==
  /\ pc = "idle" /\ op = "none"
  /\ dev = DevIdle
  /\ settings = <<>> /\ clear = FALSE /\ i = 0
  /\ rd = NoRead /\ response = NoFrame /\ rdOut = NoOut
  /\ current = NoValue /\ valid = "unset" /\ result = "unset"
  /\ sent = <<>> /\ rx = <<>> /\ flight = <<>>
  /\ noise = 0
  /\ now = 0 /\ loc = NoLoc /\ printed = NoLine
  /\ h = H0

\* the request is sent (its result is not looked at), the state endpoint is
\* looked up and the clock is read
StartCal ==
  /\ pc = "idle"
  /\ op' = "cal"
  /\ send_can_message(AxisStateRequest(NodeA, FULL_CALIBRATION))
  /\ IF PathState \in DOMAIN endpoints
     THEN /\ pc' = "cal_loop"
          /\ loc' = [loc EXCEPT !.start_time = now]
          /\ printed' = [tag |-> "start", code |-> -1]
          /\ UNCHANGED <<i, rd, response, rdOut, current, valid, result>>
     ELSE /\ Finish("False")                                   \* KeyError
          /\ printed' = [tag |-> "error", code |-> -1]
          /\ loc' = loc
  /\ h' = [h EXCEPT !.queued = sent' # sent /\ dev' = dev]
  /\ UNCHANGED <<settings, clear, rx, noise, now>>

\* while time.time() - start_time < timeout: read the state
CalLoop ==
  /\ pc = "cal_loop"
  /\ IF now - loc.start_time < CalTimeout
     THEN /\ BeginRead(endpoints[PathState].id, endpoints[PathState].type,
                       "state")
          /\ h' = [h EXCEPT !.polls = @ + 1]
          /\ UNCHANGED <<i, response, rdOut, current, valid, result, printed>>
     ELSE /\ printed' = [tag |-> "timeout", code |-> -1]
          /\ Finish("False")
          /\ h' = h
  /\ UNCHANGED <<op, settings, clear, sent, rx, flight, dev, noise, now, loc>>

\* variant: the loop never takes the state for final
CalAfterPoll_wait(state) == "wait"

\* variant: a read that returned None ends the loop
CalAfterPoll_noneEnds(state) == IF state \in {IDLE, -1} THEN "return" ELSE "wait"

\* if state == 1: return True, else: wait
CalAfterPoll(state) == IF state = IDLE THEN "return" ELSE "wait"

\* calibrate_motor after its read; state -1 stands for None
AfterState ==
  /\ pc = "rd_done" /\ rd.ctx = "state"
  /\ IF rdOut.k = "raise"
     THEN /\ printed' = [tag |-> "error", code |-> -1]
          /\ Finish("False")
          /\ h' = h
     ELSE LET state == IF rdOut.k = "value" THEN rdOut.v.m \div 1000 ELSE -1
          IN /\ h' = [h EXCEPT
                        !.last = state,
                        !.moved = @ \/ state \notin {IDLE, -1},
                        !.missed = @ \/ state = -1,
                        !.busy = @ /\ state \notin {IDLE, -1},
                        !.idleAt = IF state = IDLE /\ @ = 0 THEN h.polls ELSE @]
             /\ IF CalAfterPoll(state) = "return"
                THEN /\ printed' = [tag |-> "ok", code |-> -1]
                     /\ Finish("True")
                ELSE /\ printed' = [tag |-> "info", code |-> state]
                     /\ pc' = "cal_sleep"
                     /\ current' = rdOut.v
                     /\ rd' = NoRead /\ response' = NoFrame /\ rdOut' = NoOut
                     /\ UNCHANGED <<i, valid, result>>
  /\ UNCHANGED <<op, settings, clear, sent, rx, flight, dev, noise, now, loc>>

\* time.sleep(1): at least the interval
CalSleep ==
  /\ pc = "cal_sleep"
  /\ LET late == (now - loc.start_time) - PollInterval * h.sleeps
     IN \E over \in 0..(MaxOversleep - late) :
           now' = now + PollInterval + over
  /\ pc' = "cal_loop"
  /\ h' = [h EXCEPT !.sleeps = @ + 1]
  /\ UNCHANGED <<op, settings, clear, i, rd, response, rdOut, current, valid,
                 result, sent, rx, flight, dev, noise, loc, printed>>

\* the axis moves on by itself while the caller sleeps: to the next stage of
\* the calibration sequence, or back to idle
DeviceStep ==
  /\ pc = "cal_sleep"
  /\ dev[50] # 1000 * IDLE
  /\ \E nxt \in {1000 * IDLE,
                 CASE dev[50] = 3000 -> 4000
                   [] dev[50] = 4000 -> 7000
                   [] OTHER -> 1000 * IDLE} :
        dev' = [dev EXCEPT ![50] = nxt]
  /\ UNCHANGED <<pc, op, settings, clear, i, rd, response, rdOut, current,
                 valid, result, sent, rx, flight, noise, now, loc, printed, h>>

\* the axis loop of the node takes up the request it holds
DeviceActs ==
  /\ pc = "cal_sleep"
  /\ h.queued
  /\ dev' = [dev EXCEPT ![50] = 1000 * FULL_CALIBRATION]
  /\ h' = [h EXCEPT !.queued = FALSE]
  /\ UNCHANGED <<pc, op, settings, clear, i, rd, response, rdOut, current,
                 valid, result, sent, rx, flight, noise, now, loc, printed>>

\* the receive window of a poll ends, by the clock or by can.CanError; in
\* this part a node that got the request answers within the window, so a
\* window ends with nothing pending
CalRecvTimeout == flight = <<>> /\ rx = <<>> /\ RecvTimeout

CalRecvError == flight = <<>> /\ rx = <<>> /\ RecvError

NextCal ==
  \/ StartCal \/ CalLoop \/ AfterState \/ CalSleep \/ DeviceStep \/ DeviceActs
  \/ ReadSend \/ RecvStep \/ CalRecvTimeout \/ CalRecvError \/ ReadReturn
  \/ Deliver \/ Noise

SpecCal == InitCal /\ [][NextCal]_vars

\* ---- discover_node_ids (can_utils.py) ----
\* In this part one tick of the clock is a tenth of a second.

discovery_duration == 5   \* discovery_duration=0.5
MaxBuf == 2               \* frames the receive buffer holds

\* what the nodes of the bus broadcast: <<node id, command id>>
Broadcasts == {<<2, 1>>, <<5, 1>>, <<5, 9>>, <<9, 1>>}

BroadcastFrame(b) ==
  [addr |-> Address(b[1], b[2]), op |-> 0, ep |-> 0, cls |-> "-", m |-> 0,
   len |-> FrameLen]

Range(seq) == {seq[k] : k \in DOMAIN seq}

\* list(node_ids): the elements of the set, each once, in some order
ListsOf(S) == {l \in [1..Cardinality(S) -> S] : Range(l) = S}

\* the bus has been open for a while: frames may be buffered already
InitDisc ==
  /\ pc = "idle" /\ op = "none"
  /\ dev = DevIdle
  /\ settings = <<>> /\ clear = FALSE /\ i = 0
  /\ rd = NoRead /\ response = NoFrame /\ rdOut = NoOut
  /\ current = NoValue /\ valid = "unset" /\ result = "unset"
  /\ sent = <<>> /\ flight = <<>>
  /\ rx \in UNION { [1..n -> {BroadcastFrame(b) : b \in Broadcasts}] :
                      n \in 0..MaxBuf }
  /\ noise = 0
  /\ now = 0 /\ loc = NoLoc /\ printed = NoLine
  /\ h = H0

StartDiscover ==
  /\ pc = "idle"
  /\ op' = "discover" /\ pc' = "drain"
  /\ UNCHANGED <<settings, clear, i, rd, response, rdOut, current, valid,
                 result, sent, rx, flight, dev, noise, now, loc, printed, h>>

\* variant: the buffer is not drained
DrainStep_skip ==
  /\ pc = "drain"
  /\ loc' = [loc EXCEPT !.end_time = now + discovery_duration,
                        !.node_ids = {}]
  /\ pc' = "window"
  /\ UNCHANGED <<op, settings, clear, i, rd, response, rdOut, current, valid,
                 result, sent, rx, flight, dev, noise, now, printed, h>>

\* while bus.recv(timeout=0) is not None: pass; then end_time and node_ids
DrainStep ==
  /\ pc = "drain"
  /\ IF rx # <<>>
     THEN /\ rx' = Tail(rx)
          /\ UNCHANGED <<pc, loc>>
     ELSE /\ loc' = [loc EXCEPT !.end_time = now + discovery_duration,
                                !.node_ids = {}]
          /\ pc' = "window"
          /\ rx' = rx
  /\ UNCHANGED <<op, settings, clear, i, rd, response, rdOut, current, valid,
                 result, sent, flight, dev, noise, now, printed, h>>

\* bus.recv raises can.CanError outside the try block
DrainError ==
  /\ pc = "drain"
  /\ Finish("raise")
  /\ UNCHANGED <<op, settings, clear, sent, rx, flight, dev, noise, now, loc,
                 printed, h>>

\* one pass of the window loop that got a frame; a pass that gets None or
\* can.CanError changes nothing
WindowRecv ==
  /\ pc = "window"
  /\ now < loc.end_time
  /\ rx # <<>>
  /\ LET msg == Head(rx)
         node_id == extract_node_id(msg.addr)
     IN /\ loc' = [loc EXCEPT !.node_ids = @ \cup {node_id}]
        /\ h' = [h EXCEPT !.got = @ \cup {msg.addr}]
  /\ rx' = Tail(rx)
  /\ UNCHANGED <<pc, op, settings, clear, i, rd, response, rdOut, current,
                 valid, result, sent, flight, dev, noise, now, printed>>

\* time.time() < end_time is false: return list(node_ids)
WindowReturn ==
  /\ pc = "window"
  /\ now >= loc.end_time
  /\ \E l \in ListsOf(loc.node_ids) : loc' = [loc EXCEPT !.ret = l]
  /\ Finish("list")
  /\ UNCHANGED <<op, settings, clear, sent, rx, flight, dev, noise, now,
                 printed, h>>

\* a node broadcasts a frame; a full buffer drops it
Emit ==
  /\ pc \in {"drain", "window"}
  /\ \E b \in Broadcasts :
        /\ rx' = IF Len(rx) < MaxBuf THEN Append(rx, BroadcastFrame(b)) ELSE rx
        /\ h' = [h EXCEPT !.emitted =
                   IF pc = "window" THEN @ \cup {b[1]} ELSE @]
  /\ UNCHANGED <<pc, op, settings, clear, i, rd, response, rdOut, current,
                 valid, result, sent, flight, dev, noise, now, loc, printed>>

\* time passes; only the time since end_time was computed is looked at
Tick ==
  /\ pc = "window"
  /\ now < loc.end_time
  /\ now' = now + 1
  /\ UNCHANGED <<pc, op, settings, clear, i, rd, response, rdOut, current,
                 valid, result, sent, rx, flight, dev, noise, loc, printed, h>>

NextDisc ==
  \/ StartDiscover \/ DrainStep \/ DrainError \/ WindowRecv \/ WindowReturn
  \/ Emit \/ Tick

SpecDisc == InitDisc /\ [][NextDisc]_vars

\* the thread of the caller keeps running and the clock keeps going; the
\* nodes send when they like
DiscSteps == StartDiscover \/ DrainStep \/ WindowRecv \/ WindowReturn

SpecDiscFair == SpecDisc /\ WF_vars(DiscSteps) /\ WF_vars(Tick)

\* ---- the frame address (can_utils.py) ----

CmdBits == 5          \* arbitration_id >> 5: the command id has five bits
MaxCmd  == 2^CmdBits - 1
MaxNode == 63         \* largest node id tried

InitAddr ==
  /\ pc = "idle" /\ op = "none"
  /\ dev = DevIdle
  /\ settings = <<>> /\ clear = FALSE /\ i = 0
  /\ rd = NoRead /\ response = NoFrame /\ rdOut = NoOut
  /\ current = NoValue /\ valid = "unset" /\ result = "unset"
  /\ sent = <<>> /\ rx = <<>> /\ flight = <<>>
  /\ noise = 0
  /\ now = 0 /\ loc = NoLoc /\ printed = NoLine
  /\ h = H0

\* send_can_message(bus, node_id, command_id, '<I', 0)
AddrSend ==
  /\ pc = "idle"
  /\ \E node_id \in 0..MaxNode, command_id \in 0..MaxCmd :
        /\ send_can_message([addr |-> Address(node_id, command_id), op |-> 0,
                             ep |-> 0, cls |-> "i", m |-> 0,
                             len |-> Width("I")])
        /\ h' = [h EXCEPT !.args = <<node_id, command_id>>]
  /\ op' = "send" /\ pc' = "sent"
  /\ UNCHANGED <<settings, clear, i, rd, response, rdOut, current, valid,
                 result, rx, noise, now, loc, printed>>

\* a frame on the bus is seen by every receiver
AddrEcho ==
  /\ pc = "sent" /\ op = "send"
  /\ IF sent # <<>>
     THEN rx' = <<sent[1]>> /\ pc' = "echo"
     ELSE rx' = rx /\ pc' = "done"
  /\ UNCHANGED <<op, settings, clear, i, rd, response, rdOut, current, valid,
                 result, sent, flight, dev, noise, now, loc, printed, h>>

\* node_id = extract_node_id(msg.arbitration_id)
AddrDecode ==
  /\ pc = "echo"
  /\ loc' = [loc EXCEPT !.node_ids = {extract_node_id(Head(rx).addr)}]
  /\ pc' = "done"
  /\ UNCHANGED <<op, settings, clear, i, rd, response, rdOut, current, valid,
                 result, sent, rx, flight, dev, noise, now, printed, h>>

NextAddr == AddrSend \/ AddrEcho \/ AddrDecode

SpecAddr == InitAddr /\ [][NextAddr]_vars

\* ---- the value bytes of a frame (configure.py, struct) ----
\* Here a Python int is [neg, mag]: its sign and the bytes of its magnitude,
\* low byte first, without high zero bytes; a payload is a sequence of bytes.

CanDataLen == 8       \* data bytes of a frame of a bus that is not CAN FD

IntTypes == {"bool", "uint8", "int8", "uint16", "int16", "uint32", "int32",
             "uint64", "int64"}

Signed(fmt) == fmt \in {"b", "h", "i", "q"}

Rep(n, x) == [k \in 1..n |-> x]

Pad(b, w) == b \o Rep(w - Len(b), 0)

RECURSIVE Strip(_)
Strip(b) ==
  IF b = <<>> THEN b
  ELSE IF b[Len(b)] = 0 THEN Strip(SubSeq(b, 1, Len(b) - 1))
  ELSE b

RECURSIVE AddOne(_, _)
AddOne(b, k) ==
  IF k > Len(b) THEN b
  ELSE IF b[k] < 255 THEN [b EXCEPT ![k] = @ + 1]
  ELSE AddOne([b EXCEPT ![k] = 0], k + 1)

\* two's complement of a field of bytes
Negate(b) == AddOne([k \in DOMAIN b |-> 255 - b[k]], 1)

MinBytes(w) == Rep(w - 1, 0) \o <<128>>

\* variant: a negative value is written as its magnitude
struct_pack_mag(fmt, v) ==
  LET w == Width(fmt)
      b == Pad(v.mag, w)
  IN IF fmt = "?"
     THEN [ok |-> TRUE, bytes |-> <<IF v.mag # <<>> THEN 1 ELSE 0>>]
     ELSE IF Len(v.mag) > w THEN [ok |-> FALSE, bytes |-> <<>>]
     ELSE IF ~v.neg
     THEN [ok |-> ~Signed(fmt) \/ b[w] < 128, bytes |-> b]
     ELSE [ok |-> Signed(fmt) /\ (b[w] < 128 \/ b = MinBytes(w)),
           bytes |-> b]

\* struct.pack('<' + fmt, v) of an int: ok = FALSE is struct.error
struct_pack(fmt, v) ==
  LET w == Width(fmt)
      b == Pad(v.mag, w)
  IN IF fmt = "?"
     THEN [ok |-> TRUE, bytes |-> <<IF v.mag # <<>> THEN 1 ELSE 0>>]
     ELSE IF Len(v.mag) > w THEN [ok |-> FALSE, bytes |-> <<>>]
     ELSE IF ~v.neg
     THEN [ok |-> ~Signed(fmt) \/ b[w] < 128, bytes |-> b]
     ELSE [ok |-> Signed(fmt) /\ (b[w] < 128 \/ b = MinBytes(w)),
           bytes |-> Negate(b)]

\* struct.unpack('<' + fmt, b) of Width(fmt) bytes
struct_unpack(fmt, b) ==
  IF fmt = "?"
  THEN [neg |-> FALSE, mag |-> IF b[1] # 0 THEN <<1>> ELSE <<>>]
  ELSE IF Signed(fmt) /\ b[Len(b)] >= 128
  THEN [neg |-> TRUE, mag |-> Strip(Negate(b))]
  ELSE [neg |-> FALSE, mag |-> Strip(b)]

\* 0, 1, the largest value, and for signed types the smallest and -1
Boundary(type) ==
  LET fmt == format_lookup[type]
      w == Width(fmt)
      zero == [neg |-> FALSE, mag |-> <<>>]
      one  == [neg |-> FALSE, mag |-> <<1>>]
  IN IF fmt = "?" THEN {zero, one}
     ELSE IF Signed(fmt)
     THEN {zero, one,
           [neg |-> FALSE, mag |-> Rep(w - 1, 255) \o <<127>>],
           [neg |-> TRUE, mag |-> MinBytes(w)],
           [neg |-> TRUE, mag |-> <<1>>]}
     ELSE {zero, one, [neg |-> FALSE, mag |-> Rep(w, 255)]}

\* '<BHB': opcode, endpoint_id, 0
Header(opcode, endpoint_id) ==
  <<opcode, endpoint_id % 256, endpoint_id \div 256, 0>>

Take(b, n) == SubSeq(b, 1, IF Len(b) < n THEN Len(b) ELSE n)

\* in this part the node holds the bytes of one endpoint
InitCodec ==
  /\ pc = "idle" /\ op = "none"
  /\ dev = (endpoints[PathInt].id :> <<>>)
  /\ settings = <<>> /\ clear = FALSE /\ i = 0
  /\ rd = NoRead /\ response = NoFrame /\ rdOut = NoOut
  /\ current = NoValue /\ valid = "unset" /\ result = "unset"
  /\ sent = <<>> /\ rx = <<>> /\ flight = <<>>
  /\ noise = 0
  /\ now = 0 /\ loc = NoLoc /\ printed = NoLine
  /\ h = H0

\* values just outside the range of the type
Beyond(type) ==
  LET fmt == format_lookup[type]
      w == Width(fmt)
  IN IF fmt = "?" THEN {}
     ELSE IF Signed(fmt)
     THEN {[neg |-> FALSE, mag |-> MinBytes(w)],
           [neg |-> TRUE, mag |-> AddOne(MinBytes(w), 1)]}
     ELSE {[neg |-> FALSE, mag |-> Rep(w, 0) \o <<1>>],
           [neg |-> TRUE, mag |-> <<1>>]}

\* write_config(bus, node_id, endpoint_id, type, value): the data is packed
\* and given to bus.send, which takes it or raises can.CanError.  A frame has
\* room for CanDataLen data bytes: longer data is refused by the interface or
\* cut to that length.
CodecWrite ==
  /\ pc = "idle"
  /\ \E type \in IntTypes :
       \E value \in Boundary(type) \cup Beyond(type) :
         LET fmt  == format_lookup[type]
             ep   == endpoints[PathInt].id
             p    == struct_pack(fmt, value)
             data == Header(WRITE, ep) \o p.bytes
             call == [ep |-> ep, type |-> type, ctx |-> "codec"]
         IN IF ~p.ok
            THEN /\ Finish("raise")                               \* struct.error
                 /\ h' = [h EXCEPT !.args = <<type, value>>]
                 /\ UNCHANGED <<sent, dev>>
            ELSE /\ rd' = call /\ pc' = "written"
                 /\ UNCHANGED <<i, response, rdOut, current, valid, result>>
                 /\ \/ /\ sent' = <<Take(data, CanDataLen)>>
                       /\ dev' = [dev EXCEPT ![ep] =
                                    SubSeq(sent'[1], HeaderLen + 1,
                                           Len(sent'[1]))]
                       /\ h' = [h EXCEPT !.args = <<type, value>>,
                                         !.reached = TRUE]
                    \/ /\ UNCHANGED <<sent, dev>>
                       /\ h' = [h EXCEPT !.args = <<type, value>>]
  /\ op' = "codec"
  /\ UNCHANGED <<settings, clear, rx, flight, noise, now, loc, printed>>

\* read_config of the same endpoint with the same type, answered by the
\* node: the response carries the header and the bytes the node holds, and
\* as many zero bytes as the frame has room for
CodecRead ==
  /\ pc = "written"
  /\ LET fmt  == format_lookup[rd.type]
         data == Take(Header(READ, rd.ep) \o Pad(dev[rd.ep], Width("I")),
                      CanDataLen)
     IN rdOut' =
          IF Len(data) < HeaderLen + Width(fmt)
          THEN [k |-> "raise", v |-> NoValue]                  \* struct.error
          ELSE [k |-> "value",
                v |-> struct_unpack(fmt, SubSeq(data, HeaderLen + 1,
                                                HeaderLen + Width(fmt)))]
  /\ pc' = "done"
  /\ result' = IF rdOut'.k = "raise" THEN "raise" ELSE "value"
  /\ UNCHANGED <<op, settings, clear, i, rd, response, current, valid, sent,
                 rx, flight, dev, noise, now, loc, printed, h>>

NextCodec == CodecWrite \/ CodecRead

SpecCodec == InitCodec /\ [][NextCodec]_vars

\* ---- read_config and write_config called by a script ----

\* endpoint ids and type names a caller passes: a float endpoint, and the
\* type name "function" of the registry, which the type table does not have
CallEps   == {endpoints[PathFloat].id, endpoints[PathSave].id}
CallTypes == {endpoints[PathFloat].type, endpoints[PathSave].type}

InitAccess ==
  /\ pc = "idle" /\ op = "none"
  /\ dev \in DevInits
  /\ settings = <<>> /\ clear = FALSE /\ i = 0
  /\ rd = NoRead /\ response = NoFrame /\ rdOut = NoOut
  /\ current = NoValue /\ valid = "unset" /\ result = "unset"
  /\ sent = <<>> /\ rx = <<>> /\ flight = <<>>
  /\ noise = 0
  /\ now = 0 /\ loc = NoLoc /\ printed = NoLine
  /\ h = H0

\* value = read_config(bus, node_id, endpoint_id, endpoint_type)
CallRead ==
  /\ pc = "idle"
  /\ op' = "read"
  /\ \E endpoint_id \in CallEps, endpoint_type \in CallTypes :
        /\ BeginRead(endpoint_id, endpoint_type, "call")
        /\ h' = [h EXCEPT !.args = <<endpoint_id, endpoint_type>>]
  /\ UNCHANGED <<settings, clear, i, response, rdOut, current, valid, result,
                 sent, rx, flight, dev, noise, now, loc, printed>>

\* read_config returns to the script, or its exception reaches it
ReadOutcome ==
  /\ pc = "rd_done" /\ rd.ctx = "call"
  /\ Finish(CASE rdOut.k = "raise" -> "raise"
              [] rdOut.k = "none"  -> "None"
              [] OTHER             -> "value")
  /\ UNCHANGED <<op, settings, clear, sent, rx, flight, dev, noise, now, loc,
                 printed, h>>

\* write_config(bus, node_id, endpoint_id, endpoint_type, value): the result
\* of send_can_message is dropped and the function returns None
CallWrite ==
  /\ pc = "idle"
  /\ op' = "write"
  /\ \E endpoint_id \in CallEps, endpoint_type \in CallTypes,
        value \in Targets :
        LET w == write_config(NodeA, endpoint_id, endpoint_type, value)
        IN /\ h' = [h EXCEPT !.args = <<endpoint_id, endpoint_type>>]
           /\ IF w.ok
              THEN send_can_message(w.frame) /\ Finish("None")
              ELSE NoSend /\ Finish("raise")        \* KeyError, struct.error
  /\ UNCHANGED <<settings, clear, rx, noise, now, loc, printed>>

NextAccess ==
  \/ CallRead \/ ReadOutcome \/ CallWrite
  \/ ReadSend \/ RecvStep \/ RecvTimeout \/ RecvError \/ ReadReturn
  \/ Deliver \/ Noise

SpecAccess == InitAccess /\ [][NextAccess]_vars

\* ---- the threads of console.py and gamecontroller.py ----
\* "ui" is the metrics thread (update_metrics_textbox, update_ui_thread);
\* "ctl" is the thread that moves the motors (the urwid loop of console.py,
\* joystick_thread_func of gamecontroller.py).  They share the bus.

SET_INPUT_POS == 12   \* command id 0x0c of move_odrive_to_position
MaxCalls == 4         \* library calls the threads make in all

Threads == {"ui", "ctl"}

\* variant: the control thread reads too (get_control_mode)
ThreadCalls_allRead ==
  [t \in Threads |-> IF t = "ui" THEN {"read_config"}
                     ELSE {"move", "read_config"}]

\* the bus functions each thread calls
ThreadCalls ==
  [t \in Threads |-> IF t = "ui" THEN {"read_config"} ELSE {"move"}]

InitThreads ==
  /\ pc = "threads" /\ op = "none"
  /\ dev = DevIdle
  /\ settings = <<>> /\ clear = FALSE /\ i = 0
  /\ rd = NoRead /\ response = NoFrame /\ rdOut = NoOut
  /\ current = NoValue /\ valid = "unset" /\ result = "unset"
  /\ sent = <<>> /\ rx = <<>> /\ flight = <<>>
  /\ noise = 0
  /\ now = 0 /\ printed = NoLine
  /\ loc = [at |-> [t \in Threads |-> "idle"],
            node |-> [t \in Threads |-> 0],
            calls |-> 0]
  /\ h = H0

\* thread t enters read_config: the request goes out (or bus.send fails) and
\* the node that gets it answers
TRequest(t) ==
  /\ loc.at[t] = "idle" /\ "read_config" \in ThreadCalls[t]
  /\ loc.calls < MaxCalls
  /\ \E node_id \in {NodeA, NodeB} :
        /\ loc' = [loc EXCEPT !.at[t] = "recv", !.node[t] = node_id,
                              !.calls = @ + 1]
        /\ \/ /\ sent' = Append(sent,
                           ReadRequest(node_id, endpoints[PathFloat].id))
              /\ flight' = Append(flight,
                             [addr |-> Address(node_id, TXSDO), op |-> READ,
                              ep |-> endpoints[PathFloat].id, cls |-> "f",
                              m |-> dev[endpoints[PathFloat].id],
                              len |-> FrameLen, by |-> t])
           \/ UNCHANGED <<sent, flight>>
  /\ UNCHANGED <<pc, op, settings, clear, i, rd, response, rdOut, current,
                 valid, result, rx, dev, noise, now, printed, h>>

\* a response reaches the receive buffer
TDeliver ==
  /\ pc = "threads"
  /\ flight # <<>>
  /\ rx' = Append(rx, Head(flight))
  /\ flight' = Tail(flight)
  /\ UNCHANGED <<pc, op, settings, clear, i, rd, response, rdOut, current,
                 valid, result, sent, dev, noise, now, loc, printed, h>>

\* one pass of the receive loop of thread t that got a frame: it returns
\* with a frame of the expected address and drops any other
TRecv(t) ==
  /\ loc.at[t] = "recv"
  /\ rx # <<>>
  /\ LET msg == Head(rx)
     IN /\ loc' = IF Matches(msg, Address(loc.node[t], TXSDO))
                  THEN [loc EXCEPT !.at[t] = "idle"]
                  ELSE loc
        /\ h' = [h EXCEPT !.stolen = @ \/ msg.by # t]
  /\ rx' = Tail(rx)
  /\ UNCHANGED <<pc, op, settings, clear, i, rd, response, rdOut, current,
                 valid, result, sent, flight, dev, noise, now, printed>>

\* the 0.05 s window of thread t is over: read_config returns None
TTimeout(t) ==
  /\ loc.at[t] = "recv"
  /\ loc' = [loc EXCEPT !.at[t] = "idle"]
  /\ UNCHANGED <<pc, op, settings, clear, i, rd, response, rdOut, current,
                 valid, result, sent, rx, flight, dev, noise, now, printed, h>>

\* move_odrive_to_position(bus, node_id, position): one frame, no response
TMove(t) ==
  /\ loc.at[t] = "idle" /\ "move" \in ThreadCalls[t]
  /\ loc.calls < MaxCalls
  /\ loc' = [loc EXCEPT !.calls = @ + 1]
  /\ \E node_id \in {NodeA, NodeB} :
        \/ sent' = Append(sent,
                     [addr |-> Address(node_id, SET_INPUT_POS), op |-> 0,
                      ep |-> 0, cls |-> "f", m |-> 0, len |-> FrameLen])
        \/ sent' = sent
  /\ UNCHANGED <<pc, op, settings, clear, i, rd, response, rdOut, current,
                 valid, result, rx, flight, dev, noise, now, printed, h>>

NextThreads ==
  \/ \E t \in Threads : TRequest(t)
  \/ \E t \in Threads : TRecv(t)
  \/ \E t \in Threads : TTimeout(t)
  \/ \E t \in Threads : TMove(t)
  \/ TDeliver

SpecThreads == InitThreads /\ [][NextThreads]_vars

\* ---- configure_node (setup_odrives.py, odrive_configurator.py) ----

\* a read that returned None; no integer value has this magnitude
PyNone == [f |-> FALSE, m |-> -1]

\* send_can_message(bus, node_id, READ, '')
VersionRequest(node_id) ==
  [addr |-> Address(node_id, READ), op |-> READ, ep |-> 0, cls |-> "-",
   m |-> 0, len |-> 0]

\* what check_firmware_hardware_version finds: the versions match, they do
\* not (ValueError), or no response came (a line is printed)
VersionOutcomes == {"match", "mismatch", "none"}

InitNode ==
  /\ pc = "node_check" /\ op = "node"
  /\ settings \in SettingsLists
  /\ dev \in DevInits
  /\ clear = FALSE /\ i = 0
  /\ rd = NoRead /\ response = NoFrame /\ rdOut = NoOut
  /\ current = NoValue /\ valid = "unset" /\ result = "unset"
  /\ sent = <<>> /\ rx = <<>> /\ flight = <<>>
  /\ noise = 0
  /\ now = 0 /\ loc = NoLoc /\ printed = NoLine
  /\ h = H0

\* an exception reached an except clause of configure_node
NodeRaise == Finish("False") /\ h' = h

\* configure_node line 9
NodeCheckVersion ==
  /\ pc = "node_check"
  /\ send_can_message(VersionRequest(NodeA))
  /\ \E v \in VersionOutcomes :
        IF v = "mismatch"
        THEN NodeRaise
        ELSE /\ pc' = "node_loop" /\ i' = 1
             /\ UNCHANGED <<rd, response, rdOut, current, valid, result, h>>
  /\ UNCHANGED <<op, settings, now, loc, printed, clear, rx, noise>>

\* the loop of configure_node takes the next setting; configure_odrive looks
\* its path up and reads the current value
NodeLookup ==
  /\ pc = "node_loop"
  /\ i <= Len(settings)
  /\ LET path == settings[i].path
     IN IF path \notin DOMAIN endpoints
        THEN NodeRaise                                         \* KeyError
        ELSE /\ BeginRead(endpoints[path].id, endpoints[path].type,
                          "cfg_current")
             /\ UNCHANGED <<i, response, rdOut, current, valid, result, h>>
  /\ UNCHANGED <<op, settings, now, loc, printed, clear, sent, rx, flight,
                 dev, noise>>

\* configure_odrive returned ok; configure_node does not look at the value
\* and takes the next setting
AfterConfigure(ok) ==
  /\ h' = [h EXCEPT !.failLen = IF ~ok /\ @ = -1 THEN Len(sent) ELSE @,
                    !.nOk = IF ok THEN @ + 1 ELSE @]
  /\ pc' = "node_loop" /\ i' = i + 1
  /\ rd' = NoRead /\ response' = NoFrame /\ rdOut' = NoOut
  /\ current' = NoValue /\ valid' = "unset"
  /\ UNCHANGED result

\* configure_odrive after the read of the current value; values are kept in
\* thousandths, so round(current_value, 3) leaves them as they are
ConfigureAfterCurrent ==
  /\ pc = "rd_done" /\ rd.ctx = "cfg_current"
  /\ LET value == settings[i].value
         current_value == IF rdOut.k = "none" THEN PyNone ELSE rdOut.v
         w     == write_config(NodeA, rd.ep, rd.type, value)
     IN CASE rdOut.k = "raise" -> NodeRaise /\ NoSend
          [] rdOut.k # "raise" /\ current_value.m = value.m ->
               AfterConfigure(TRUE) /\ NoSend                  \* already set
          [] rdOut.k # "raise" /\ current_value.m # value.m /\ ~w.ok ->
               NodeRaise /\ NoSend                             \* struct.error
          [] OTHER ->
               /\ send_can_message(w.frame)
               /\ BeginRead(rd.ep, rd.type, "cfg_validate")
               /\ current' = current_value
               /\ response' = NoFrame /\ rdOut' = NoOut
               /\ UNCHANGED <<i, valid, result, h>>
  /\ UNCHANGED <<op, settings, now, loc, printed, clear, rx, noise>>

\* configure_odrive after validate_config (actual_value == expected_value);
\* both status lines format current_value, which raises TypeError for None
ConfigureAfterValidate ==
  /\ pc = "rd_done" /\ rd.ctx = "cfg_validate"
  /\ CASE rdOut.k = "raise" -> NodeRaise
       [] rdOut.k # "raise" /\ current = PyNone -> NodeRaise
       [] OTHER ->
            AfterConfigure(rdOut.k = "value" /\ rdOut.v.m = settings[i].value.m)
  /\ UNCHANGED <<op, settings, now, loc, printed, clear, sent, rx, flight,
                 dev, noise>>

\* configure_node lines 18-19 and 27
NodeSave ==
  /\ pc = "node_loop"
  /\ i > Len(settings)
  /\ send_can_message(save_config(NodeA, endpoints[PathSave].id))
  /\ Finish("True") /\ h' = h
  /\ UNCHANGED <<op, settings, now, loc, printed, clear, rx, noise>>

NextNode ==
  \/ NodeCheckVersion \/ NodeLookup \/ NodeSave
  \/ ConfigureAfterCurrent \/ ConfigureAfterValidate
  \/ ReadSend \/ RecvStep \/ RecvTimeout \/ RecvError \/ ReadReturn
  \/ Deliver \/ Noise

SpecNode == InitNode /\ [][NextNode]_vars

\* ---- convert_id.py ----

MaxId == 3            \* largest node address on the bus
Devices == {"d1", "d2"}
Ids == 1..MaxId

\* the devices on the bus have pairwise distinct addresses
Distinct(ids) == \A a, b \in DOMAIN ids : a # b => ids[a] # ids[b]

\* loc holds old_id, new_id and discovered of main, whether bus.shutdown()
\* was called, and the address each device holds in its configuration
InitRename ==
  /\ pc = "rn_discover" /\ op = "rename"
  /\ \E ids \in [Devices -> Ids], old_id \in Ids, new_id \in Ids :
        /\ Distinct(ids)
        /\ loc = [ids |-> ids, old_id |-> old_id, new_id |-> new_id,
                  discovered |-> {}, shut |-> FALSE]
  /\ dev = DevIdle
  /\ settings = <<>> /\ clear = FALSE /\ i = 0
  /\ rd = NoRead /\ response = NoFrame /\ rdOut = NoOut
  /\ current = NoValue /\ valid = "unset" /\ result = "unset"
  /\ sent = <<>> /\ rx = <<>> /\ flight = <<>>
  /\ noise = 0
  /\ now = 0 /\ printed = NoLine
  /\ h = H0

\* discovered = discover_node_ids(bus): the nodes heard during the window,
\* or the exception of a failed bus.recv while draining, which nothing catches
RenameDiscover ==
  /\ pc = "rn_discover"
  /\ \/ /\ \E heard \in SUBSET {loc.ids[d] : d \in Devices} :
              loc' = [loc EXCEPT !.discovered = heard]
        /\ pc' = "rn_test"
        /\ UNCHANGED <<i, rd, response, rdOut, current, valid, result>>
     \/ /\ Finish("raise")
        /\ loc' = loc
  /\ UNCHANGED <<op, settings, clear, sent, rx, flight, dev, noise, now,
                 printed, h>>

\* if old_id not in discovered: print, bus.shutdown(), return
RenameTest ==
  /\ pc = "rn_test"
  /\ IF loc.old_id \notin loc.discovered
     THEN /\ loc' = [loc EXCEPT !.shut = TRUE]
          /\ Finish("None")
     ELSE /\ pc' = "rn_write"
          /\ UNCHANGED <<loc, i, rd, response, rdOut, current, valid, result>>
  /\ UNCHANGED <<op, settings, clear, sent, rx, flight, dev, noise, now,
                 printed, h>>

\* the write request of main line 31
RenameFrame(old_id, new_id) ==
  write_config(old_id, endpoints[PathNodeId].id, endpoints[PathNodeId].type,
               PyInt(new_id)).frame

\* the persist request of main line 35
RenameSaveFrame(old_id) == save_config(old_id, endpoints[PathSave].id)

\* write_config(bus, old_id, node_id_endpoint, node_id_type, new_id): the
\* device that answers to old_id takes the new address into its configuration,
\* or bus.send raises can.CanError, which send_can_message swallows
RenameWrite ==
  /\ pc = "rn_write"
  /\ \/ /\ sent' = Append(sent, RenameFrame(loc.old_id, loc.new_id))
        /\ loc' = [loc EXCEPT !.ids =
                     [d \in Devices |-> IF loc.ids[d] = loc.old_id
                                        THEN loc.new_id ELSE loc.ids[d]]]
     \/ UNCHANGED <<sent, loc>>
  /\ pc' = "rn_save"
  /\ UNCHANGED <<op, settings, clear, i, rd, response, rdOut, current, valid,
                 result, rx, flight, dev, noise, now, printed, h>>

\* save_config(bus, old_id, save_config_endpoint); bus.shutdown()
RenameSave ==
  /\ pc = "rn_save"
  /\ \/ sent' = Append(sent, RenameSaveFrame(loc.old_id))
     \/ sent' = sent
  /\ loc' = [loc EXCEPT !.shut = TRUE]
  /\ Finish("None")
  /\ UNCHANGED <<op, settings, clear, rx, flight, dev, noise, now, printed, h>>

NextRename == RenameDiscover \/ RenameTest \/ RenameWrite \/ RenameSave

SpecRename == InitRename /\ [][NextRename]_vars

\* ---- safe_calibrate_all_motors (calibrate.py) ----

MaxPolls == 2         \* polls of one calibrate_motor call in this part

\* the lists discover_node_ids can return on a bus with nodes A and B
NodeLists ==
  { l \in UNION { [1..n -> {NodeA, NodeB}] : n \in 0..2 } :
      \A a, b \in DOMAIN l : a # b => l[a] # l[b] }

\* bus.send takes the frame or raises can.CanError, which send_can_message
\* turns into False
BusSend(frame) == sent' = Append(sent, frame) \/ sent' = sent

\* loc holds node_ids, the position of the loop, what calibrate_motor
\* returned for each node so far, the polls of the call in progress, whether
\* an exception ended the loop and whether bus.shutdown() was called
InitAll ==
  /\ pc = "all_discover" /\ op = "all"
  /\ loc = [nodes |-> <<>>, k |-> 0, outcomes |-> <<>>, polls |-> 0,
            stopped |-> FALSE, shut |-> FALSE]
  /\ dev = DevIdle
  /\ settings = <<>> /\ clear = FALSE /\ i = 0
  /\ rd = NoRead /\ response = NoFrame /\ rdOut = NoOut
  /\ current = NoValue /\ valid = "unset" /\ result = "unset"
  /\ sent = <<>> /\ rx = <<>> /\ flight = <<>>
  /\ noise = 0
  /\ now = 0 /\ printed = NoLine
  /\ h = H0

\* except Exception ... finally: bus.shutdown()
AllStop ==
  /\ loc' = [loc EXCEPT !.stopped = TRUE, !.shut = TRUE]
  /\ Finish("None")

\* node_ids = discover_node_ids(bus), or its exception
AllDiscover ==
  /\ pc = "all_discover"
  /\ \/ /\ \E l \in NodeLists : loc' = [loc EXCEPT !.nodes = l, !.k = 1]
        /\ pc' = "all_next"
        /\ UNCHANGED <<i, rd, response, rdOut, current, valid, result>>
     \/ AllStop
  /\ UNCHANGED <<op, settings, clear, sent, rx, flight, dev, noise, now,
                 printed, h>>

\* the loop takes the next node: input() returns (or raises EOFError), then
\* set_idle_mode(bus, node_id), whose result is not looked at
AllIdle ==
  /\ pc = "all_next"
  /\ loc.k <= Len(loc.nodes)
  /\ \/ /\ BusSend(AxisStateRequest(loc.nodes[loc.k], IDLE))
        /\ pc' = "all_cal"
        /\ UNCHANGED <<loc, i, rd, response, rdOut, current, valid, result>>
     \/ AllStop /\ sent' = sent
  /\ UNCHANGED <<op, settings, clear, rx, flight, dev, noise, now, printed, h>>

\* calibrate_motor line 28
AllRequest ==
  /\ pc = "all_cal"
  /\ BusSend(AxisStateRequest(loc.nodes[loc.k], FULL_CALIBRATION))
  /\ pc' = "all_poll"
  /\ loc' = [loc EXCEPT !.polls = 0]
  /\ UNCHANGED <<op, settings, clear, i, rd, response, rdOut, current, valid,
                 result, rx, flight, dev, noise, now, printed, h>>

\* one poll of calibrate_motor: a read request, and what the loop does with
\* the answer: return True (IDLE), return False (an exception, or the
\* timeout after the sleep), or poll again
AllPoll ==
  /\ pc = "all_poll"
  /\ BusSend(ReadRequest(loc.nodes[loc.k], endpoints[PathState].id))
  /\ \/ /\ \E ok \in {"True", "False"} :
             loc' = [loc EXCEPT !.outcomes = Append(@, ok), !.k = @ + 1]
        /\ pc' = "all_next"
     \/ /\ loc.polls + 1 < MaxPolls
        /\ loc' = [loc EXCEPT !.polls = @ + 1]
        /\ pc' = pc
  /\ UNCHANGED <<op, settings, clear, i, rd, response, rdOut, current, valid,
                 result, rx, flight, dev, noise, now, printed, h>>

\* the loop is over: "Calibration process completed.", finally: bus.shutdown()
AllEnd ==
  /\ pc = "all_next"
  /\ loc.k > Len(loc.nodes)
  /\ loc' = [loc EXCEPT !.shut = TRUE]
  /\ Finish("None")
  /\ UNCHANGED <<op, settings, clear, sent, rx, flight, dev, noise, now,
                 printed, h>>

NextAll == AllDiscover \/ AllIdle \/ AllRequest \/ AllPoll \/ AllEnd

SpecAll == InitAll /\ [][NextAll]_vars

\* ---- setup.py main ----

MaxFrames == 2        \* frames of one setup_odrive call in this part

\* Node-to-motor map
MOTOR_MAP ==
  (0 :> "8308") @@ (1 :> "8308") @@ (2 :> "8308") @@ (3 :> "8308") @@
  (4 :> "8308") @@ (5 :> "GB36") @@ (6 :> "GB36") @@ (7 :> "5208")

\* the motor types data/config.py has settings for
config_data == {"8308", "GB36"}

NoConfigNode == 7     \* a node whose motor type has no settings
UnmappedNode == 9     \* a node MOTOR_MAP has no entry for

\* the lists discover_node_ids can return on a bus with these three nodes
MainLists ==
  { l \in UNION { [1..n -> {NodeA, NoConfigNode, UnmappedNode}] : n \in 0..3 } :
      \A a, b \in DOMAIN l : a # b => l[a] # l[b] }

\* loc holds node_ids, the position of the loop, the frames of the
\* setup_odrive call in progress, the position of the node whose setup_odrive
\* failed (0 if none) and whether bus.shutdown() was called
InitMain ==
  /\ pc = "main_discover" /\ op = "main"
  /\ loc = [nodes |-> <<>>, k |-> 0, frames |-> 0, failed |-> 0,
            shut |-> FALSE]
  /\ dev = DevIdle
  /\ settings = <<>> /\ clear = FALSE /\ i = 0
  /\ rd = NoRead /\ response = NoFrame /\ rdOut = NoOut
  /\ current = NoValue /\ valid = "unset" /\ result = "unset"
  /\ sent = <<>> /\ rx = <<>> /\ flight = <<>>
  /\ noise = 0
  /\ now = 0 /\ printed = NoLine
  /\ h = H0

\* main returns or an exception leaves it: finally: bus.shutdown()
MainLeave(res) ==
  /\ loc' = [loc EXCEPT !.shut = TRUE]
  /\ Finish(res)

\* node_ids = discover_node_ids(bus), or its can.CanError, which the except
\* clause of main catches
MainDiscover ==
  /\ pc = "main_discover"
  /\ \/ /\ \E l \in MainLists : loc' = [loc EXCEPT !.nodes = l, !.k = 1]
        /\ pc' = "main_next"
        /\ UNCHANGED <<i, rd, response, rdOut, current, valid, result>>
     \/ MainLeave("None")
  /\ UNCHANGED <<op, settings, clear, sent, rx, flight, dev, noise, now,
                 printed, h>>

\* the loop takes the next node: no entry in MOTOR_MAP, continue; no
\* settings for its motor type, KeyError, which no except clause catches
MainNext ==
  /\ pc = "main_next"
  /\ loc.k <= Len(loc.nodes)
  /\ LET node_id == loc.nodes[loc.k]
     IN IF node_id \notin DOMAIN MOTOR_MAP
        THEN /\ loc' = [loc EXCEPT !.k = @ + 1]
             /\ UNCHANGED <<pc, i, rd, response, rdOut, current, valid, result>>
        ELSE IF MOTOR_MAP[node_id] \notin config_data
        THEN MainLeave("raise")
        ELSE /\ pc' = "main_setup"
             /\ loc' = [loc EXCEPT !.frames = 0]
             /\ UNCHANGED <<i, rd, response, rdOut, current, valid, result>>
  /\ UNCHANGED <<op, settings, clear, sent, rx, flight, dev, noise, now,
                 printed, h>>

\* setup_odrive sends a frame to the node
MainFrame ==
  /\ pc = "main_setup"
  /\ loc.frames < MaxFrames
  /\ BusSend(ReadRequest(loc.nodes[loc.k], endpoints[PathInt].id))
  /\ loc' = [loc EXCEPT !.frames = @ + 1]
  /\ UNCHANGED <<pc, op, settings, clear, i, rd, response, rdOut, current,
                 valid, result, rx, flight, dev, noise, now, printed, h>>

\* variant: the loop goes on after a failed node
MainAfterSetup_goOn(ok) == "next"

\* if not setup_odrive(...): return
MainAfterSetup(ok) == IF ok THEN "next" ELSE "return"

\* setup_odrive returns
MainReturn ==
  /\ pc = "main_setup"
  /\ \E ok \in BOOLEAN :
        IF MainAfterSetup(ok) = "next"
        THEN /\ loc' = [loc EXCEPT !.k = @ + 1,
                                   !.failed = IF ~ok /\ @ = 0 THEN loc.k ELSE @]
             /\ pc' = "main_next"
             /\ UNCHANGED <<i, rd, response, rdOut, current, valid, result>>
        ELSE /\ loc' = [loc EXCEPT !.failed = loc.k, !.shut = TRUE]
             /\ Finish("None")
  /\ UNCHANGED <<op, settings, clear, sent, rx, flight, dev, noise, now,
                 printed, h>>

\* the loop is over
MainEnd ==
  /\ pc = "main_next"
  /\ loc.k > Len(loc.nodes)
  /\ MainLeave("None")
  /\ UNCHANGED <<op, settings, clear, sent, rx, flight, dev, noise, now,
                 printed, h>>

NextMain == MainDiscover \/ MainNext \/ MainFrame \/ MainReturn \/ MainEnd

SpecMain == InitMain /\ [][NextMain]_vars

\* ---- the front ends: console.py, gamecontroller.py, velocity.py ----
\* op is the program.  The worker "ui" is the metrics thread of console.py
\* and gamecontroller.py; the worker "joy" is joystick_thread_func of
\* gamecontroller.py and motor_update_thread of velocity.py.  A worker is
\* "off" (not started), "run" (at the top of its loop), "busy" (inside an
\* iteration) or "end".

CLOSED_LOOP_CONTROL == 8   \* the state set_closed_loop_control requests
MaxUses == 2               \* frames sent while the urwid loop runs

Programs == {"console", "game", "velocity"}
Workers  == {"ui", "joy"}

\* the workers main starts
Started(program) ==
  CASE program = "console" -> {"ui"}
    [] program = "game"    -> {"ui", "joy"}
    [] OTHER               -> {"joy"}

\* the programs whose workers loop while not stop_event.is_set()
UsesStopEvent(program) == program \in {"game", "velocity"}

\* send_can_message(bus, node_id, 0x0c, '<fhh', position, 0, 0)
PositionFrame(node_id, position) ==
  [addr |-> Address(node_id, SET_INPUT_POS), op |-> 0, ep |-> 0, cls |-> "f",
   m |-> position, len |-> CanDataLen]

\* node_ids.sort()
SortedList(set) ==
  CHOOSE l \in NodeLists :
    /\ {l[k] : k \in DOMAIN l} = set
    /\ \A a, b \in DOMAIN l : a < b => l[a] < l[b]

InitFront ==
  /\ pc = "f_discover" /\ op \in Programs
  /\ loc = [nodes |-> <<>>, k |-> 0, shut |-> FALSE, stop |-> FALSE,
            w |-> [t \in Workers |-> "off"], n |-> 0]
  /\ dev = DevIdle
  /\ settings = <<>> /\ clear = FALSE /\ i = 0
  /\ rd = NoRead /\ response = NoFrame /\ rdOut = NoOut
  /\ current = NoValue /\ valid = "unset" /\ result = "unset"
  /\ sent = <<>> /\ rx = <<>> /\ flight = <<>>
  /\ noise = 0
  /\ now = 0 /\ printed = NoLine
  /\ h = H0

FrontLocals == <<i, rd, response, rdOut, current, valid, result>>

\* discover_node_ids and the test of its result: console.py and
\* gamecontroller.py return when no node was found (the bus stays open);
\* velocity.py shuts the bus down and returns when its node was not found
FrontDiscover ==
  /\ pc = "f_discover"
  /\ \E discovered \in SUBSET {NodeA, NodeB} :
        IF op = "velocity"
        THEN IF NodeA \notin discovered
             THEN /\ loc' = [loc EXCEPT !.shut = TRUE]
                  /\ Finish("None")
             ELSE /\ loc' = [loc EXCEPT !.nodes = <<NodeA>>, !.k = 1]
                  /\ pc' = "f_closed"
                  /\ UNCHANGED FrontLocals
        ELSE IF discovered = {}
             THEN /\ loc' = loc
                  /\ Finish("None")
             ELSE /\ loc' = [loc EXCEPT !.nodes = SortedList(discovered),
                                        !.k = 1]
                  /\ pc' = "f_closed"
                  /\ UNCHANGED FrontLocals
  /\ UNCHANGED <<op, settings, clear, sent, rx, flight, dev, noise, now,
                 printed, h>>

\* if not set_closed_loop_control(bus, nd): bus.shutdown(); return
FrontClosedLoop ==
  /\ pc = "f_closed"
  /\ loc.k <= Len(loc.nodes)
  /\ \/ /\ sent' = Append(sent, AxisStateRequest(loc.nodes[loc.k],
                                                 CLOSED_LOOP_CONTROL))
        /\ loc' = [loc EXCEPT !.k = @ + 1]
        /\ UNCHANGED <<pc, i, rd, response, rdOut, current, valid, result>>
     \/ /\ sent' = sent
        /\ loc' = [loc EXCEPT !.shut = TRUE]
        /\ Finish("None")
  /\ UNCHANGED <<op, settings, clear, rx, flight, dev, noise, now, printed, h>>

\* every node is in closed loop: gamecontroller.py returns when there is no
\* joystick; otherwise the workers are started and the urwid loop runs
FrontStart ==
  /\ pc = "f_closed"
  /\ loc.k > Len(loc.nodes)
  /\ \/ /\ op = "game"
        /\ loc' = loc
        /\ Finish("None")
     \/ /\ loc' = [loc EXCEPT !.w = [t \in Workers |->
                      IF t \in Started(op) THEN "run" ELSE "off"]]
        /\ pc' = "f_run"
        /\ UNCHANGED FrontLocals
  /\ UNCHANGED <<op, settings, clear, sent, rx, flight, dev, noise, now,
                 printed, h>>

\* console.py: a key moves a slider and the urwid loop sends the position
FrontKey ==
  /\ pc = "f_run" /\ op = "console"
  /\ loc.n < MaxUses
  /\ \E k \in DOMAIN loc.nodes : BusSend(PositionFrame(loc.nodes[k], 100))
  /\ loc' = [loc EXCEPT !.n = @ + 1]
  /\ UNCHANGED <<pc, op, settings, clear, i, rd, response, rdOut, current,
                 valid, result, rx, flight, dev, noise, now, printed, h>>

\* the urwid loop ends.  console.py: ESC and KeyboardInterrupt lead to
\* clean_shutdown, another exception to the finally clause alone.
\* gamecontroller.py and velocity.py: the finally clause sets stop_event
\* (the ESC handler has set it already) and joins the workers.
FrontExit ==
  /\ pc = "f_run"
  /\ IF op = "console"
     THEN \/ pc' = "f_zero" /\ loc' = [loc EXCEPT !.k = 1]
          \/ pc' = "f_finally" /\ loc' = loc
     ELSE /\ pc' = "f_join"
          /\ loc' = [loc EXCEPT !.stop = TRUE]
  /\ UNCHANGED <<op, settings, clear, i, rd, response, rdOut, current, valid,
                 result, sent, rx, flight, dev, noise, now, printed, h>>

\* variant: the joins do not wait
Joined_noWait == TRUE

\* ui_thread.join(); joy_thread.join() have returned
Joined == \A t \in Workers : loc.w[t] \in {"off", "end"}

\* the joins return; clean_shutdown begins (velocity.py has no move to 0)
FrontJoin ==
  /\ pc = "f_join"
  /\ Joined
  /\ pc' = IF op = "game" THEN "f_zero" ELSE "f_idle"
  /\ loc' = [loc EXCEPT !.k = 1]
  /\ UNCHANGED <<op, settings, clear, i, rd, response, rdOut, current, valid,
                 result, sent, rx, flight, dev, noise, now, printed, h>>

\* clean_shutdown: move_odrive_to_position(bus, nd, 0) for every node, sleep
FrontZero ==
  /\ pc = "f_zero"
  /\ IF loc.k <= Len(loc.nodes)
     THEN /\ BusSend(PositionFrame(loc.nodes[loc.k], 0))
          /\ loc' = [loc EXCEPT !.k = @ + 1]
          /\ pc' = pc
     ELSE /\ sent' = sent
          /\ loc' = [loc EXCEPT !.k = 1]
          /\ pc' = "f_idle"
  /\ UNCHANGED <<op, settings, clear, i, rd, response, rdOut, current, valid,
                 result, rx, flight, dev, noise, now, printed, h>>

\* clean_shutdown: set_idle_mode(bus, nd) for every node, bus.shutdown()
FrontIdle ==
  /\ pc = "f_idle"
  /\ IF loc.k <= Len(loc.nodes)
     THEN /\ BusSend(AxisStateRequest(loc.nodes[loc.k], IDLE))
          /\ loc' = [loc EXCEPT !.k = @ + 1]
          /\ UNCHANGED <<pc, i, rd, response, rdOut, current, valid, result>>
     ELSE /\ sent' = sent
          /\ loc' = [loc EXCEPT !.shut = TRUE]
          /\ IF op = "console"
             THEN pc' = "f_finally" /\ UNCHANGED FrontLocals
             ELSE Finish("None")
  /\ UNCHANGED <<op, settings, clear, rx, flight, dev, noise, now, printed, h>>

\* console.py: finally: bus.shutdown(); main returns
FrontFinally ==
  /\ pc = "f_finally"
  /\ loc' = [loc EXCEPT !.shut = TRUE]
  /\ Finish("None")
  /\ UNCHANGED <<op, settings, clear, sent, rx, flight, dev, noise, now,
                 printed, h>>

\* worker t is at the top of its loop: "while not stop_event.is_set()" in
\* gamecontroller.py and velocity.py, "while True" in console.py
WorkerCheck(t) ==
  /\ pc # "done"
  /\ loc.w[t] = "run"
  /\ IF UsesStopEvent(op) /\ loc.stop
     THEN loc' = [loc EXCEPT !.w[t] = "end"]
     ELSE /\ loc.n < MaxUses
          /\ loc' = [loc EXCEPT !.w[t] = "busy", !.n = @ + 1]
  /\ UNCHANGED <<pc, op, settings, clear, i, rd, response, rdOut, current,
                 valid, result, sent, rx, flight, dev, noise, now, printed, h>>

IdleSent ==
  \E k \in DOMAIN sent :
     sent[k].addr % 32 = SET_AXIS_STATE /\ sent[k].m = 1000 * IDLE

\* the iteration of worker t: "ui" sends a read request (get_metrics), "joy"
\* a position command; on a bus that was shut down the call fails
WorkerUse(t) ==
  /\ pc # "done"
  /\ loc.w[t] = "busy"
  /\ \E k \in DOMAIN loc.nodes :
        IF loc.shut
        THEN sent' = sent
        ELSE BusSend(IF t = "ui"
                     THEN ReadRequest(loc.nodes[k], endpoints[PathFloat].id)
                     ELSE PositionFrame(loc.nodes[k], 100))
  /\ h' = [h EXCEPT !.late = @ \/ loc.shut,
                    !.afterIdle = @ \/ (t = "joy" /\ IdleSent)]
  /\ loc' = [loc EXCEPT !.w[t] = "run"]
  /\ UNCHANGED <<pc, op, settings, clear, i, rd, response, rdOut, current,
                 valid, result, rx, flight, dev, noise, now, printed>>

Worker(t) == WorkerCheck(t) \/ WorkerUse(t)

FrontMain ==
  \/ FrontDiscover \/ FrontClosedLoop \/ FrontStart \/ FrontKey \/ FrontExit
  \/ FrontJoin \/ FrontZero \/ FrontIdle \/ FrontFinally

NextFront ==
  \/ FrontMain
  \/ \E t \in Workers : WorkerCheck(t)
  \/ \E t \in Workers : WorkerUse(t)

SpecFront == InitFront /\ [][NextFront]_vars

\* the threads keep being scheduled: a worker that can step does, and main,
\* once its urwid loop has ended, goes on; keys come when the user likes
FrontAfterLoop == FrontJoin \/ FrontZero \/ FrontIdle \/ FrontFinally

SpecFrontFair ==
  /\ SpecFront
  /\ \A t \in Workers : WF_vars(Worker(t))
  /\ WF_vars(FrontAfterLoop)

\* ---- joystick_thread_func (gamecontroller.py) ----
\* Positions and axis values are in thousandths, dt in milliseconds.  loc
\* holds node_ids, the tracked values, the LB button of the latest iteration
\* and the position commands that iteration made, as <<node, position>>.

DEAD_ZONE                == 250
VELOCITY_SCALING         == 2
FOREARM_VELOCITY_SCALING == 1
GRIPPER_SCALING          == 500   \* 0.5

JOINT0_MIN  == -4800
JOINT0_MAX  == 4800
JOINT1_MIN  == -5000
JOINT1_MAX  == 0
JOINT2_MIN  == -5000
JOINT2_MAX  == 5000
JOINT3_MIN  == -5900
JOINT3_MAX  == 0
BEND_MIN    == -5000
BEND_MAX    == 5000
ROTATE_MIN  == -10000
ROTATE_MAX  == 10000
TRIGGER_MIN == -50
TRIGGER_MAX == 700

\* what the sticks and triggers report, and what clock.tick returns: a
\* regular tick and a stalled one
StickValues   == {-1000, -200, 1000}
TriggerValues == {-1000, 1000}
DtValues      == {1000, 5000}
JoyNodeSets   == {{0, 3, 7}, {1, 2, 4}, {5, 6}}

apply_dead_zone(value) == IF Abs(value) < DEAD_ZONE THEN 0 ELSE value

\* axis * VELOCITY_SCALING * dt
Step(axis, dt) == (axis * VELOCITY_SCALING * dt) \div 1000

\* variant: the upper limit is not enforced
Clamp_lowOnly(val, min_val, max_val) == IF val < min_val THEN min_val ELSE val

\* if v < MIN: v = MIN; if v > MAX: v = MAX
Clamp(val, min_val, max_val) ==
  LET low == IF val < min_val THEN min_val ELSE val
  IN  IF low > max_val THEN max_val ELSE low

InitJoy ==
  /\ pc = "joy_loop" /\ op = "joy"
  /\ \E node_ids \in JoyNodeSets :
        loc = [nodes |-> node_ids,
               pos |-> [j0 |-> 0, sh |-> 0, j2 |-> 0, j3 |-> 0, bend |-> 0,
                        rot |-> 0, trig |-> 0],
               lb |-> 0, cmds |-> {}]
  /\ dev = DevIdle
  /\ settings = <<>> /\ clear = FALSE /\ i = 0
  /\ rd = NoRead /\ response = NoFrame /\ rdOut = NoOut
  /\ current = NoValue /\ valid = "unset" /\ result = "unset"
  /\ sent = <<>> /\ rx = <<>> /\ flight = <<>>
  /\ noise = 0
  /\ now = 0 /\ printed = NoLine
  /\ h = H0

\* the values enumerated for an axis: an axis that moves no joint of
\* node_ids (users: the nodes whose joints read it) is left at rest
AxisInputs(users, values) ==
  IF users \cap loc.nodes # {} THEN values ELSE {0}

\* one iteration of the loop of joystick_thread_func
JoyIteration ==
  /\ pc = "joy_loop"
  /\ \E lb, rb \in {0, 1}, dt \in DtValues,
        left_x  \in AxisInputs({0, 5}, StickValues),
        left_y  \in AxisInputs({1, 5}, StickValues),
        right_x \in AxisInputs({3}, StickValues),
        right_y \in AxisInputs({4}, StickValues),
        left_t  \in AxisInputs({7}, TriggerValues),
        right_t \in AxisInputs({7}, TriggerValues) :
       LET raw_bend   == apply_dead_zone(left_x)
           raw_rotate == apply_dead_zone(left_y)
           ax         == apply_dead_zone(right_x)
           ay         == apply_dead_zone(right_y)
           raw_lt     == apply_dead_zone(left_t)
           raw_rt     == apply_dead_zone(right_t)
           node_ids   == loc.nodes
           p          == loc.pos
           pressed      == lb = 1
           gripper_mode == rb = 1
           has3    == pressed /\ 3 \in node_ids
           has4    == pressed /\ 4 \in node_ids
           has0    == pressed /\ ~gripper_mode /\ 0 \in node_ids
           hasSh   == pressed /\ ~gripper_mode /\ 1 \in node_ids /\ 2 \in node_ids
           hasGrip == pressed /\ gripper_mode /\ 5 \in node_ids /\ 6 \in node_ids
           has7    == pressed /\ 7 \in node_ids
           j2   == IF has3 THEN Clamp(p.j2 + Step(ax, dt), JOINT2_MIN, JOINT2_MAX)
                   ELSE p.j2
           j3   == IF has4 THEN Clamp(p.j3 - Step(ay, dt), JOINT3_MIN, JOINT3_MAX)
                   ELSE p.j3
           j0   == IF has0 THEN Clamp(p.j0 + Step(raw_bend, dt), JOINT0_MIN, JOINT0_MAX)
                   ELSE p.j0
           sh   == IF hasSh THEN Clamp(p.sh + Step(raw_rotate, dt), JOINT1_MIN, JOINT1_MAX)
                   ELSE p.sh
           bend == IF hasGrip
                   THEN Clamp(p.bend + Step(raw_bend, dt) * FOREARM_VELOCITY_SCALING,
                              BEND_MIN, BEND_MAX)
                   ELSE p.bend
           rot  == IF hasGrip
                   THEN Clamp(p.rot + Step(raw_rotate, dt) * FOREARM_VELOCITY_SCALING,
                              ROTATE_MIN, ROTATE_MAX)
                   ELSE p.rot
           down == IF raw_lt > 0 THEN (Step(raw_lt, dt) * GRIPPER_SCALING) \div 1000
                   ELSE 0
           up   == IF raw_rt > 0 THEN (Step(raw_rt, dt) * GRIPPER_SCALING) \div 1000
                   ELSE 0
           trig == IF has7 THEN Clamp(p.trig - down + up, TRIGGER_MIN, TRIGGER_MAX)
                   ELSE p.trig
       IN  loc' = [loc EXCEPT
                     !.pos = [j0 |-> j0, sh |-> sh, j2 |-> j2, j3 |-> j3,
                              bend |-> bend, rot |-> rot, trig |-> trig],
                     !.lb = lb,
                     !.cmds = (IF has3 THEN {<<3, j2>>} ELSE {})
                        \cup (IF has4 THEN {<<4, j3>>} ELSE {})
                        \cup (IF has0 THEN {<<0, j0>>} ELSE {})
                        \cup (IF hasSh THEN {<<1, sh>>, <<2, -sh>>} ELSE {})
                        \cup (IF hasGrip THEN {<<5, rot + bend>>, <<6, rot - bend>>}
                              ELSE {})
                        \cup (IF has7 THEN {<<7, trig>>} ELSE {})]
  /\ UNCHANGED <<pc, op, settings, clear, i, rd, response, rdOut, current,
                 valid, result, sent, rx, flight, dev, noise, now, printed, h>>

\* stop_event is set: the loop ends
JoyStop ==
  /\ pc = "joy_loop"
  /\ Finish("None")
  /\ UNCHANGED <<op, settings, clear, sent, rx, flight, dev, noise, now, loc,
                 printed, h>>

NextJoy == JoyIteration \/ JoyStop

SpecJoy == InitJoy /\ [][NextJoy]_vars

\* ---- properties ----

IsPersist(fr) == fr.op = WRITE /\ fr.ep = 40

IsSettingWrite(fr) == fr.op = WRITE /\ fr.ep # 40

Persists == {k \in DOMAIN sent : IsPersist(sent[k])}

SetupDone == pc = "done" /\ op = "setup"

\* endpoint ids of the settings up to index n whose path is registered
IdsUpTo(n) ==
  { endpoints[settings[k].path].id :
      k \in {j \in DOMAIN settings :
               j <= n /\ settings[j].path \in DOMAIN endpoints} }

\* C1: once a setting has failed, setup_odrive returns failure and the frames
\* it sent are those it had sent when the setting failed: none for a later
\* setting, and no persist command.
C1_FailFast ==
  (SetupDone /\ h.failLen >= 0) =>
     /\ result = "False"
     /\ Len(sent) = h.failLen
     /\ Persists = {}
     /\ \A k \in DOMAIN sent : sent[k].ep \in IdsUpTo(h.nOk + 1)

C1_Witness ==
  /\ SetupDone /\ h.failLen > 0 /\ h.nOk = 0 /\ Len(settings) = 2
  /\ result = "False"

\* C2: setup_odrive returns success exactly when every setting succeeded, and
\* then, and only then, one persist frame was sent to the node, after every
\* other frame.
C2_PersistIffSuccess ==
  SetupDone =>
     /\ (result = "True") <=> (h.nOk = Len(settings))
     /\ (result = "True") =>
           Cardinality(Persists) = 1 /\ Len(sent) \in Persists
     /\ (result # "True") => Persists = {}

C4_TimeoutNone ==
  (pc = "rd_done" /\ ~h.seen) => rdOut.k = "none"

C4_Witness ==
  pc = "rd_done" /\ ~h.seen /\ h.skipped # {} /\ rdOut.k = "none"

\* C5: the value read_config returns comes from a response that answers the
\* read of the endpoint asked for.
C5_Correlated ==
  (pc = "rd_done" /\ rdOut.k = "value") => response.ep = rd.ep

\* C6: read_config addressed to node A takes its value only from a frame
\* whose address is (A << 5) | 0x05, never from a frame of another node or
\* of another command id.
C6_OwnAddressOnly ==
  /\ (pc \in {"rd_ret", "rd_done"} /\ response # NoFrame) =>
        /\ response.addr = NodeA * 32 + 5
        /\ response.addr \notin h.skipped
  /\ (pc = "rd_done" /\ rdOut.k = "value") => response # NoFrame

C6_Witness ==
  /\ pc = "rd_done" /\ rdOut.k = "value"
  /\ (NodeB * 32 + 5) \in h.skipped

\* C7: a response to the read-response address whose payload is shorter than
\* the header plus the width of the type makes read_config return none.
C7_ShortIsNone ==
  (pc = "rd_done" /\ response # NoFrame
     /\ rd.type \in DOMAIN format_lookup
     /\ response.len < HeaderLen + Width(format_lookup[rd.type]))
    => rdOut.k = "none"

\* C8: validate_config returns true exactly when its read returned a value
\* that matches the expected one by the rule of the endpoint's type (floats
\* within the tolerance, other types exactly), false when it returned none.
C8_ValidateByType ==
  (pc = "val_ret" /\ rdOut.k \in {"value", "none"}) =>
     (valid = "True") <=>
        (rdOut.k = "value"
           /\ MatchesByType(rd.type, rdOut.v.m, settings[i].value))

\* C9: the already-set test skips the write exactly when validate_config
\* would succeed on reading the same value.
C9_SameRule ==
  (pc = "rd_done" /\ rd.ctx = "current" /\ rdOut.k = "value") =>
     (AlreadySet(rdOut.v, settings[i].value, Tolerance)
        <=> validate_config(rdOut, settings[i].value, Tolerance) = "True")

\* C10: a setting that was written and validated keeps, until setup_odrive
\* returns, the value the node held when it was validated, and every write
\* setup_odrive sends carries the target of a setting of the list.
C10_NotTransactional ==
  op = "setup" =>
     /\ \A a \in h.applied : dev[a.ep] = a.m
     /\ \A k \in DOMAIN sent :
          IsSettingWrite(sent[k]) =>
             \E j \in DOMAIN settings :
                /\ settings[j].path \in DOMAIN endpoints
                /\ endpoints[settings[j].path].id = sent[k].ep
                /\ settings[j].value.m = sent[k].m

C10_Witness ==
  /\ SetupDone /\ result = "False" /\ h.applied # {}
  /\ \E k \in DOMAIN sent : IsSettingWrite(sent[k])

\* C11: a setting whose path is not in the registry ends setup_odrive with
\* failure (no exception leaves it): the frames sent are those of the settings
\* before it, and there is no persist command.
C11_UnknownPathFails ==
  (SetupDone /\ \E k \in DOMAIN settings :
                   k <= h.nOk + 1 /\ settings[k].path \notin DOMAIN endpoints)
    => /\ result = "False"
       /\ Persists = {}
       /\ \A k \in DOMAIN sent : sent[k].ep \in IdsUpTo(h.nOk)
       /\ h.failLen = Len(sent)

C11_Witness ==
  /\ SetupDone /\ result = "False"
  /\ Len(settings) = 2 /\ settings[2].path = PathUnknown
  /\ h.nOk = 1 /\ Len(sent) > 0

CalDone == pc = "done" /\ op = "cal"

\* C12: calibrate_motor returns success at the first poll that returns IDLE
\* and reads no more after it, and it returns success only then; when that
\* poll is the fourth, three poll intervals have passed.
C12_PollSuccess ==
  /\ (op = "cal" /\ h.idleAt > 0) =>
        /\ CalDone /\ result = "True"
        /\ h.polls = h.idleAt
        /\ Len(sent) <= 1 + h.idleAt
  /\ (CalDone /\ result = "True") => h.idleAt > 0
  /\ (op = "cal" /\ h.idleAt = 4) =>
        /\ h.sleeps = 3
        /\ now - loc.start_time >= 3 * PollInterval

C12_Witness ==
  /\ CalDone /\ result = "True"
  /\ h.idleAt = 4 /\ h.sleeps = 3
  /\ now - loc.start_time = 3 * PollInterval

\* C13: when the timeout passes and no poll returned IDLE, calibrate_motor
\* returns failure after at most timeout / interval polls, and the line it
\* prints for the failure names the state code seen last.
C13_PollFailure ==
  (CalDone /\ h.idleAt = 0 /\ now - loc.start_time >= CalTimeout) =>
     /\ result = "False"
     /\ h.polls <= CalTimeout \div PollInterval
     /\ printed.code = h.last

DiscDone == pc = "done" /\ op = "discover"

\* C14: the list discover_node_ids returns holds exactly the node ids
\* (address >> 5) of the frames it received in the window, each once; it is
\* the empty list when it received none.
C14_ExactNodeSet ==
  (DiscDone /\ result = "list") =>
     /\ Range(loc.ret) = {a \div 32 : a \in h.got}
     /\ \A j, k \in DOMAIN loc.ret : j # k => loc.ret[j] # loc.ret[k]
     /\ h.got = {} => loc.ret = <<>>

C14_Witness ==
  /\ DiscDone /\ result = "list"
  /\ h.got = {Address(b[1], b[2]) : b \in Broadcasts}
  /\ Range(loc.ret) = {2, 5, 9} /\ Len(loc.ret) = 3

\* C15: a node in the returned list sent a frame after the window began: a
\* node that only has frames buffered from before the call is not in it.
C15_NoStale ==
  (DiscDone /\ result = "list") => Range(loc.ret) \subseteq h.emitted

C15_Witness ==
  /\ DiscDone /\ result = "list"
  /\ 9 \notin Range(loc.ret) /\ 2 \in Range(loc.ret)
  /\ h.emitted = {2}

\* C16: discover_node_ids ends, whatever the nodes send and whenever.
C16_Terminates == <>(pc = "done")

\* the window of discover_node_ids ends once it has begun
WindowEnds == (pc = "window") ~> (pc = "done")

\* C17: the address of a frame sent for node id n and command id c in 0..31
\* is 32 n + c; the node id decoded from it is n, its low five bits are c,
\* and no other pair gives the same address.
C17_AddressRoundTrip ==
  (op = "send" /\ pc = "done" /\ sent # <<>>) =>
     LET n == h.args[1]
         c == h.args[2]
         address == sent[1].addr
     IN /\ address = 32 * n + c
        /\ loc.node_ids = {n}
        /\ address % 32 = c
        /\ \A n2 \in 0..MaxNode, c2 \in 0..MaxCmd :
              Address(n2, c2) = address => (n2 = n /\ c2 = c)

C17_Witness ==
  /\ op = "send" /\ pc = "done" /\ sent # <<>>
  /\ h.args = <<MaxNode, MaxCmd>>
  /\ loc.node_ids = {MaxNode}

CodecDone == pc = "done" /\ op = "codec" /\ h.reached

\* C18: for every integer type of the type table and every boundary value
\* of it, read_config gives back the value write_config wrote.
C18_TypeRoundTrip ==
  (CodecDone /\ h.args[2] \in Boundary(h.args[1]))
    => (rdOut.k = "value" /\ rdOut.v = h.args[2])

\* the same for the types whose payload fits a frame
RoundTripInFrame ==
  (CodecDone /\ HeaderLen + Width(format_lookup[h.args[1]]) <= CanDataLen)
    => (rdOut.k = "value" /\ rdOut.v = h.args[2])

\* struct.pack refuses exactly the values outside the range of the type
PackRefusesBeyond ==
  (op = "codec" /\ pc = "done") =>
     (rdOut.k = "unset" /\ result = "raise"
        <=> h.args[2] \in Beyond(h.args[1]))

AccessDone == pc = "done" /\ op \in {"read", "write"}

\* C19: read_config and write_config called with a type name that is not in
\* the type table end in an error: they return neither a value, nor None as
\* after a timeout, nor normally as after a write.
C19_UnknownTypeIsError ==
  (AccessDone /\ h.args[2] \notin DOMAIN format_lookup) => result = "raise"

\* C20: write_config tells the caller whether the frame was handed to the
\* transport: a call whose frame the transport refused returns failure.
C20_WriteReportsOutcome ==
  (pc = "done" /\ op = "write" /\ result # "raise") =>
     /\ sent # <<>> => result \in {"True", "None"}
     /\ sent = <<>> => result = "False"

\* C21: a read that returned None is not taken for the value zero:
\* clear_errors does not print "No error" for it, and setup_odrive fails the
\* setting instead of comparing None with the target.
C21_NoneIsNotZero ==
  /\ (op = "clear" /\ pc \in {"cloop", "done"} /\ printed.tag = "no_error")
        => ~h.none
  /\ (SetupDone /\ h.none) => result = "False"

InReadConfig == {t \in Threads : loc.at[t] = "recv"}

\* C22: at most one thread is inside read_config at any time, and no thread
\* takes from the bus the response to a request of another thread.
C22_OneReader ==
  pc = "threads" => (Cardinality(InReadConfig) <= 1 /\ ~h.stolen)

C22_Witness ==
  /\ pc = "threads"
  /\ InReadConfig = {"ui"}
  /\ Len(sent) >= 2
  /\ sent[Len(sent)].addr % 32 = SET_INPUT_POS
  /\ sent[1].op = READ /\ sent[1].addr % 32 = RXSDO

\* C23: the line set_odrive_parameter prints when validation fails names the
\* expected value and, as the actual value, the one the validation read gave.
C23_ReportsReadBack ==
  (SetupDone /\ printed.tag = "update_failed") =>
     /\ printed.expected = settings[h.nOk + 1].value.m
     /\ printed.code = h.back

\* C24: once configure_odrive reported a setting as not applied,
\* configure_node returns failure and sends nothing more: no frame of a
\* later setting and no persist request.
C24_NodeFailFast ==
  (op = "node" /\ pc = "done" /\ h.failLen >= 0) =>
     /\ result = "False"
     /\ Len(sent) = h.failLen

\* C25: when convert_id ends, and old_id was discovered, the frames it sent
\* are the write of new_id to the node-id endpoint and then the persist
\* request, both addressed to old_id; when old_id was not discovered it sent
\* nothing and shut the bus down.
C25_WriteThenPersist ==
  (op = "rename" /\ pc = "done") =>
     IF loc.old_id \in loc.discovered
     THEN sent = <<RenameFrame(loc.old_id, loc.new_id),
                   RenameSaveFrame(loc.old_id)>>
     ELSE sent = <<>> /\ loc.shut

\* C26: after a rename on a bus whose devices had pairwise distinct
\* addresses, the devices still have pairwise distinct addresses.
C26_AddressesStayUnique ==
  (op = "rename" /\ pc = "done") => Distinct(loc.ids)

\* the frames of sent that name endpoint id e, in order
FramesOf(e) ==
  LET Names(frame) == frame.ep = e
  IN SelectSeq(sent, Names)

\* the setting a frame belongs to; the persist request comes after them all
SettingOf(frame) ==
  IF \E k \in DOMAIN settings :
        /\ settings[k].path \in DOMAIN endpoints
        /\ endpoints[settings[k].path].id = frame.ep
  THEN CHOOSE k \in DOMAIN settings :
        /\ settings[k].path \in DOMAIN endpoints
        /\ endpoints[settings[k].path].id = frame.ep
  ELSE Len(settings) + 1

\* C27: during setup_odrive the frames sent for one setting are, in order,
\* a read request, then a write request, then a read request (or a beginning
\* of that); the write and the validation are begun only after a read that
\* returned a value; the frames of a setting come before those of the next.
C27_ProtocolOrder ==
  op = "setup" =>
     /\ \A k \in DOMAIN settings :
          settings[k].path \in DOMAIN endpoints =>
             LET fr == FramesOf(endpoints[settings[k].path].id)
             IN /\ Len(fr) <= 3
                /\ \A n \in DOMAIN fr : fr[n].op = <<READ, WRITE, READ>>[n]
     /\ (pc = "rd_send" /\ rd.ctx = "validate") => ~h.none
     /\ \A a, b \in DOMAIN sent :
          a < b => SettingOf(sent[a]) <= SettingOf(sent[b])

RequestSent ==
  \E k \in DOMAIN sent : sent[k] = AxisStateRequest(NodeA, FULL_CALIBRATION)

\* C28: when the calibration request could not be sent, calibrate_motor
\* does not return success.
C28_SendFailureSurfaces ==
  (CalDone /\ ~RequestSent) => result # "True"

\* C29: calibrate_motor returns success only after some poll returned a
\* calibrating state; a node still IDLE at the first poll is not reported as
\* calibrated.
C29_WentThroughCalibration ==
  /\ (CalDone /\ result = "True") => h.moved
  /\ (CalDone /\ h.idleAt = 1) => result # "True"

\* C30: a poll whose read returned None does not end calibrate_motor: the
\* state is reported as not IDLE, the loop sleeps one interval after every
\* poll, and the call still returns success when a later poll, begun before
\* the timeout, returns IDLE.
C30_MissedReadKeepsPolling ==
  /\ (CalDone /\ h.missed /\ h.last = -1) =>
        /\ result = "False"
        /\ printed.tag \in {"timeout", "error"}
  /\ (op = "cal" /\ pc = "cal_sleep" /\ h.last = -1) =>
        printed = [tag |-> "info", code |-> -1]
  /\ (op = "cal" /\ pc = "cal_loop") => h.sleeps = h.polls
  /\ (op = "cal" /\ h.missed /\ h.idleAt > 0) =>
        /\ CalDone /\ result = "True"
        /\ now - loc.start_time < CalTimeout

C30_Witness ==
  /\ CalDone /\ result = "True"
  /\ h.missed /\ h.moved
  /\ h.idleAt >= 3

\* the positions of sent that hold a write request
Writes == {k \in DOMAIN sent : sent[k].op = WRITE}

\* C33: during clear_errors every write frame sent carries the value 0 to
\* axis0.active_errors, is sent with clear true and after the read of that
\* endpoint returned a non-zero value, and there is at most one; none goes
\* to axis0.disarm_reason and none is sent with clear false.
C33_WritesOnlyActiveErrors ==
  op = "clear" =>
     /\ \A k \in Writes :
          /\ sent[k] = write_config(NodeA, endpoints[PathActive].id,
                                    endpoints[PathActive].type, PyInt(0)).frame
          /\ clear
          /\ endpoints[PathActive].id \in h.nonzero
     /\ Cardinality(Writes) <= 1
     /\ ~clear => Writes = {}

\* both endpoints were read non-zero with clear true: one write was sent
C33_Witness ==
  /\ op = "clear" /\ pc = "done" /\ clear
  /\ h.nonzero = {endpoints[PathActive].id, endpoints[PathDisarm].id}
  /\ Cardinality(Writes) = 1

\* C34: the data write_config builds for a type of the type table, the four
\* header bytes and the value at its declared width, is at most the eight
\* data bytes of a frame.
C34_FrameFits ==
  (op = "codec" /\ h.args # <<>>) =>
     Len(Header(WRITE, rd.ep)) + Width(format_lookup[h.args[1]]) <= CanDataLen

\* the position in node_ids of the node a frame is addressed to
NodeIndex(frame) ==
  CHOOSE k \in DOMAIN loc.nodes : loc.nodes[k] = extract_node_id(frame.addr)

\* C31: while safe_calibrate_all_motors runs, every calibration request in
\* sent has the IDLE request to the same node before it; the frames to a
\* node come before those to the next node of the list; a failed calibration
\* is followed by the next node, so that a run no exception ended has an
\* outcome for every node; and the bus is shut down when the run is over.
C31_OneNodeAtATime ==
  op = "all" =>
     /\ \A k \in DOMAIN sent :
          sent[k].addr % 32 = SET_AXIS_STATE
            /\ sent[k].m = 1000 * FULL_CALIBRATION =>
               \E j \in 1..(k - 1) :
                  sent[j] = AxisStateRequest(extract_node_id(sent[k].addr), IDLE)
     /\ \A a, b \in DOMAIN sent :
          a < b => NodeIndex(sent[a]) <= NodeIndex(sent[b])
     /\ (pc = "done" /\ ~loc.stopped) => Len(loc.outcomes) = Len(loc.nodes)
     /\ pc = "done" => loc.shut

C35_NoUseAfterShutdown ==
  op = "console" => ~h.late

\* no started worker thread is still running
NoWorkerLeft == \A t \in Workers : loc.w[t] \in {"off", "end"}

\* C36: in gamecontroller.py and velocity.py the shutdown is ordered: the
\* joins are reached with stop_event set, an IDLE command or bus.shutdown()
\* comes only when every started worker has ended, no worker sends a position
\* command after an IDLE command, and once stop_event is set every worker
\* ends.
C36_OrderedShutdown ==
  /\ [](UsesStopEvent(op) =>
          /\ pc \in {"f_join", "f_zero", "f_idle"} => loc.stop
          /\ (IdleSent \/ loc.shut \/ pc \in {"f_zero", "f_idle"}) => NoWorkerLeft
          /\ ~h.afterIdle
          /\ ~h.late)
  /\ (UsesStopEvent(op) /\ loc.stop) ~> NoWorkerLeft

C36_Witness ==
  /\ op = "game" /\ pc = "done"
  /\ loc.stop /\ loc.shut /\ IdleSent
  /\ \A t \in Workers : loc.w[t] = "end"
  /\ \E k \in DOMAIN sent : sent[k] = PositionFrame(NodeA, 100)

\* the frames that ask node_id for state requested
StateFrames(node_id, requested) ==
  {k \in DOMAIN sent : sent[k] = AxisStateRequest(node_id, requested)}

\* C37: console.py and gamecontroller.py do not return with a motor left in
\* closed-loop control: every node that was sent CLOSED_LOOP_CONTROL was sent
\* IDLE afterwards.
C37_NoMotorLeftInClosedLoop ==
  (op \in {"console", "game"} /\ pc = "done") =>
     \A n \in {NodeA, NodeB} :
        \A k \in StateFrames(n, CLOSED_LOOP_CONTROL) :
           \E j \in StateFrames(n, IDLE) : j > k

\* the range of the joint a single motor drives
JointRange(node_id) ==
  CASE node_id = 0 -> <<JOINT0_MIN, JOINT0_MAX>>
    [] node_id = 3 -> <<JOINT2_MIN, JOINT2_MAX>>
    [] node_id = 4 -> <<JOINT3_MIN, JOINT3_MAX>>
    [] node_id = 7 -> <<TRIGGER_MIN, TRIGGER_MAX>>

Within(v, lo, hi) == lo <= v /\ v <= hi

====
